---- MODULE Spec2Model ----
(***************************************************************************)
(* A model of the urbansprawl grid-feature aggregation and land-use-mix    *)
(* engine (Oslandia/urbansprawl):                                          *)
(*   src/urbansprawl/sprawl/landusemix.py        entropy, KDE surfaces     *)
(*   src/urbansprawl/population/urban_features.py  per-cell aggregation    *)
(*   src/urbansprawl/population/utils.py         blocks, empty-cell fill   *)
(*                                                                         *)
(* Numbers.  The program computes in IEEE doubles; the model computes in   *)
(* exact arithmetic: a finite number is a normalised rational <<n, d>>     *)
(* (d > 0); <<0, 0>> is NaN, <<1, 0>> and <<-1, 0>> are the infinities.    *)
(* Logarithms are never rounded: a value that is a rational combination   *)
(* of logarithms is kept as the rational whose logarithm it is.            *)
(* Coordinates are metres.                                                 *)
(***************************************************************************)
EXTENDS Integers, Sequences, FiniteSets, TLC

VARIABLES
    phi_x, phi_y, phi_out,     \* SpecPhi: the arguments and the result of metric_phi_entropy
    kde_in, kde_out,           \* SpecKde: the arguments and the outcome of calculate_kde
    feat_in, feat_records,     \* SpecFeatures: the inputs of one computing call of
    feat_out,                  \*   compute_full_urban_features, its overlap records, its outcome
    block_in, block_out,       \* SpecBlocks: the arguments and the outcome of get_aggregated_squares
    world,                     \* Spec: the grid, buildings and POIs the caller has
    caller_built,              \*   the caller's building table (line 121 writes into it)
    caller_features,           \*   the feature table the caller last got (None before)
    storage,                   \*   the storage folder
    last_call,                 \*   the last call: its arguments and what it did
    calls,                     \*   the number of calls made
    written,                   \*   for every stored file, what the call that wrote it returned
    computed,                  \*   for the arguments of every call that computed: its latest
                               \*   outcome and the number of such calls
    assoc_frame, assoc_last,   \* SpecAssoc: the encompassing table, and the last call of
                               \*   associate_structures on it
    fill_in, fill_out,         \* SpecFill: the table given to
                               \*   get_population_df_filled_empty_squares and its outcome
    mix_in, mix_out,           \* SpecMix: the arguments of compute_grid_landusemix and what
                               \*   it handed to calculate_kde with the table after the call
    train_in, train_out        \* SpecTrain: the table given to get_training_testing_data
                               \*   and the result of the call

phi_vars == <<phi_x, phi_y, phi_out>>
kde_vars == <<kde_in, kde_out>>
feat_vars == <<feat_in, feat_records, feat_out>>
block_vars == <<block_in, block_out>>
main_vars == <<world, caller_built, caller_features, storage, last_call, calls, written, computed>>
assoc_vars == <<assoc_frame, assoc_last>>
fill_vars == <<fill_in, fill_out>>
mix_vars == <<mix_in, mix_out>>
train_vars == <<train_in, train_out>>
unit_vars == <<assoc_vars, fill_vars, mix_vars, train_vars>>

vars == <<phi_x, phi_y, phi_out, kde_in, kde_out, feat_in, feat_records, feat_out,
          block_in, block_out,
          world, caller_built, caller_features, storage, last_call, calls, written, computed,
          assoc_frame, assoc_last, fill_in, fill_out, mix_in, mix_out, train_in, train_out>>

(***************************************************************************)
(* Exact arithmetic                                                        *)
(***************************************************************************)
NaN == <<0, 0>>
PosInf == <<1, 0>>
NegInf == <<-1, 0>>
NotRun == <<>>

Abs(i) == IF i < 0 THEN -i ELSE i
Min(i, j) == IF i <= j THEN i ELSE j
Max(i, j) == IF i >= j THEN i ELSE j

RECURSIVE GCD(_, _)
GCD(i, j) == IF j = 0 THEN Abs(i) ELSE GCD(j, i % j)

RECURSIVE Pow(_, _)
Pow(b, e) == IF e = 0 THEN 1 ELSE b * Pow(b, e - 1)

\* The rational n/d, d # 0, in lowest terms with a positive denominator.
Rat(n, d) ==
    LET g == GCD(Abs(n), Abs(d))
        s == IF d < 0 THEN -1 ELSE 1
    IN  <<(s * n) \div g, (s * d) \div g>>

RInt(i) == <<i, 1>>
RZero == <<0, 1>>
ROne == <<1, 1>>
RAdd(p, q) == Rat(p[1] * q[2] + q[1] * p[2], p[2] * q[2])
RMul(p, q) == Rat(p[1] * q[1], p[2] * q[2])
RLess(p, q) == p[1] * q[2] < q[1] * p[2]
RLeq(p, q) == p[1] * q[2] <= q[1] * p[2]
\* p / q for q # 0
RDiv(p, q) == Rat(p[1] * q[2], p[2] * q[1])

(***************************************************************************)
(* landusemix.py: metric_phi_entropy                                       *)
(*                                                                         *)
(* The result is NaN, the number 0, or an entropy term <<a, b, n>> standing*)
(* for  -((a/n) ln(a/n) + (b/n) ln(b/n)) / ln 2  with x_ = a/n, y_ = b/n.  *)
(* n times that value is log2(n^(a+b) / (a^a b^b)), so its comparisons     *)
(* with 0 and 1 are comparisons of integers (PhiGeqZero, PhiLeqOne).       *)
(***************************************************************************)
IsNaN(v) == v = NaN

\* (mutant) the proportions are not normalised to sum to 1: x_, y_ = x, y
PhiNormalise_unnormalised(x, y) == <<x[1] * y[2], y[1] * x[2], x[2] * y[2]>>

\* x_, y_ = x / (x + y), y / (x + y)        (line 45)
PhiNormalise(x, y) ==
    LET a == x[1] * y[2]
        b == y[1] * x[2]
        g == GCD(a, b)
    IN  <<a \div g, b \div g, (a + b) \div g>>

\* (mutant) the zero rule is tested before the negative rule
metric_phi_entropy_zero_first(x, y) ==
    IF IsNaN(x) \/ IsNaN(y) THEN NaN
    ELSE IF x = RZero \/ y = RZero THEN RZero
    ELSE IF RLess(x, RZero) \/ RLess(y, RZero) THEN NaN
    ELSE PhiNormalise(x, y)

\* lines 39-47; a NaN argument fails both comparisons and propagates
metric_phi_entropy(x, y) ==
    IF IsNaN(x) \/ IsNaN(y) THEN NaN
    ELSE IF RLess(x, RZero) \/ RLess(y, RZero) THEN NaN
    ELSE IF x = RZero \/ y = RZero THEN RZero
    ELSE PhiNormalise(x, y)

IsPhiTerm(v) == Len(v) = 3
IsFinite(v) == Len(v) = 2 /\ v[2] > 0

\* 2^(n * value) = PhiP / PhiQ for the term <<a, b, n>>
PhiP(t) == Pow(t[3], t[1] + t[2])
PhiQ(t) == Pow(t[1], t[1]) * Pow(t[2], t[2])
PhiGeqZero(v) == IF IsPhiTerm(v) THEN PhiP(v) >= PhiQ(v) ELSE IsFinite(v) /\ RLeq(RZero, v)
PhiLeqOne(v) == IF IsPhiTerm(v) THEN PhiP(v) <= Pow(2, v[3]) * PhiQ(v) ELSE IsFinite(v) /\ RLeq(v, ROne)
PhiIsOne(v) == IF IsPhiTerm(v) THEN PhiP(v) = Pow(2, v[3]) * PhiQ(v) ELSE v = ROne
PhiIsZero(v) == IF IsPhiTerm(v) THEN PhiP(v) = PhiQ(v) ELSE v = RZero

(***************************************************************************)
(* Sequences, optional values, outcomes of a call                          *)
(***************************************************************************)
None == <<>>
Some(v) == <<v>>
IsNone(o) == o = <<>>
Get(o) == o[1]

Range(s) == {s[i] : i \in 1..Len(s)}
Map(F(_), s) == [i \in 1..Len(s) |-> F(s[i])]

RECURSIVE SumSeq(_)
SumSeq(s) == IF s = <<>> THEN 0 ELSE Head(s) + SumSeq(Tail(s))

\* the sequences over S of length 0..n
SeqsUpTo(S, n) == UNION {[1..k -> S] : k \in 0..n}

\* a call returns a value or raises
Return(v) == [raised |-> "", value |-> v]
Raise(e) == [raised |-> e, value |-> <<>>]
Returned(o) == o.raised = ""

(***************************************************************************)
(* Geometry: footprints are axis-parallel rectangles [x0, x1] x [y0, y1]   *)
(* (a point is a rectangle of no extent), coordinates in metres.           *)
(***************************************************************************)
\* the side of a grid cell, in metres (population/utils.py, step = 200.0)
CellSize == 200

Rect(x0, x1, y0, y1) == [kind |-> "rect", x0 |-> x0, x1 |-> x1, y0 |-> y0, y1 |-> y1]
PointGeom(x, y) == Rect(x, x, y, y)

\* urban_features.py lines 133-139: the placeholder building of a cell that
\* intersects no building, the triangle (0,0), (0,eps), (eps,eps) with
\* eps = 2^-52.  Its area eps^2 / 2 is modelled by a small positive rational.
min_polygon == [kind |-> "min_polygon", x0 |-> 0, x1 |-> 0, y0 |-> 0, y1 |-> 0]
MinPolygonArea == <<1, 1000>>

\* shapely .area, a rational
Area(g) == IF g.kind = "min_polygon" THEN MinPolygonArea
           ELSE RInt((g.x1 - g.x0) * (g.y1 - g.y0))

\* shapely a.intersects(b) for closed rectangles: a common point is enough
Intersects(a, b) ==
    /\ Max(a.x0, b.x0) <= Min(a.x1, b.x1)
    /\ Max(a.y0, b.y0) <= Min(a.y1, b.y1)

\* shapely a.intersection(b).area; b is a rectangle.  The placeholder lies in
\* the square [0, eps] x [0, eps]: a rectangle with whole coordinates holds
\* all of it or none of its area.
IntersectionArea(a, b) ==
    IF a.kind = "min_polygon"
    THEN (IF b.x0 <= 0 /\ 0 < b.x1 /\ b.y0 <= 0 /\ 0 < b.y1 THEN MinPolygonArea ELSE RZero)
    ELSE RInt(Max(0, Min(a.x1, b.x1) - Max(a.x0, b.x0)) * Max(0, Min(a.y1, b.y1) - Max(a.y0, b.y0)))
\* shapely .centroid, as the point <<x, y>>
Centroid(g) == <<(g.x0 + g.x1) \div 2, (g.y0 + g.y1) \div 2>>
Dist2(p, q) == (p[1] - q[1]) * (p[1] - q[1]) + (p[2] - q[2]) * (p[2] - q[2])

(***************************************************************************)
(* landusemix.py: calculate_kde                                            *)
(*                                                                         *)
(* The Gaussian kernel exp(-d^2 / 2h^2) is 2^(-d^2 / KernelQuantum) for    *)
(* the bandwidth h with 2 h^2 ln 2 = KernelQuantum; the model keeps it an  *)
(* integer by scaling with 2^KernelMaxExp, and rounds the exponent down    *)
(* to a whole number no larger than KernelMaxExp, so a kernel value never  *)
(* underflows to 0.  The constant factors of a density (1/N, the kernel's  *)
(* norm) cancel in PDF / PDF.max() and are left out.                       *)
(***************************************************************************)
KernelMaxExp == 10
KernelQuantum == 10000
Kernel(d2) == Pow(2, KernelMaxExp - Min(KernelMaxExp, d2 \div KernelQuantum))

\* np.log of a floor area, in units of ln 3: the areas of the model are 0 and
\* the powers of 3, so that the logarithm is exact.  np.log(0) is -inf.
RECURSIVE Log3(_)
Log3(a) == IF a = 1 THEN 0 ELSE 1 + Log3(a \div 3)
NpLog(a) == IF a = 0 THEN NegInf ELSE RInt(Log3(a))

\* sklearn KernelDensity(kernel="gaussian").fit(X), exp(score_samples(Y)):
\* the sum of the kernel over the points of X, at every point of Y
KernelDensity(X, Y) ==
    [c \in 1..Len(Y) |-> RInt(SumSeq([i \in 1..Len(X) |-> Kernel(Dist2(Y[c], X[i]))]))]

\* sprawl/utils.py WeightedKernelDensityEstimation(X, Weights, bandwidth, Y):
\* sum_i Weights[i] / sum(Weights) * K(|Y[c] - X[i]| / bandwidth), in numpy
\* arithmetic: an infinite weight or a zero sum of weights gives NaN everywhere.
WeightedKernelDensityEstimation(X, W, Y) ==
    IF \E i \in 1..Len(W) : ~IsFinite(W[i]) THEN [c \in 1..Len(Y) |-> NaN]
    ELSE LET S == SumSeq([i \in 1..Len(W) |-> W[i][1]])
         IN  IF S = 0 THEN [c \in 1..Len(Y) |-> NaN]
             ELSE [c \in 1..Len(Y) |->
                     Rat(SumSeq([i \in 1..Len(X) |-> W[i][1] * Kernel(Dist2(Y[c], X[i]))]), S)]

\* PDF.max(): NaN when an entry is NaN
SeqMax(PDF) ==
    IF \E c \in 1..Len(PDF) : IsNaN(PDF[c]) THEN NaN
    ELSE CHOOSE m \in Range(PDF) : \A v \in Range(PDF) : RLeq(v, m)

\* v / m in numpy arithmetic (finite v; m finite or NaN)
NpDivide(v, m) ==
    IF IsNaN(v) \/ IsNaN(m) THEN NaN
    ELSE IF m = RZero THEN (IF v = RZero THEN NaN ELSE IF RLess(v, RZero) THEN NegInf ELSE PosInf)
    ELSE RDiv(v, m)

\* (mutant) the surface is returned as estimated, not divided by its maximum
DivideByMax_not_normalised(PDF) == PDF

\* PDF / PDF.max()                                        (lines 314, 320)
DivideByMax(PDF) == [c \in 1..Len(PDF) |-> NpDivide(PDF[c], SeqMax(PDF))]

\* lines 289-320.  points: the positions to evaluate; df_osm_built,
\* df_osm_pois: tables with a geometry column (df_osm_pois may be None);
\* X_weights: None or the buildings' weights.  An empty X makes the
\* estimator raise (scipy's cdist and sklearn's fit refuse a 1-d empty array).
calculate_kde(points, df_osm_built, df_osm_pois, X_weights, pois_weight, log_weight) ==
    LET X_b == [i \in 1..Len(df_osm_built) |-> Centroid(df_osm_built[i].geometry)]
        X_p == IF IsNone(df_osm_pois) THEN <<>>
               ELSE [i \in 1..Len(Get(df_osm_pois)) |-> Centroid(Get(df_osm_pois)[i].geometry)]
        X == X_b \o X_p
        Y == points
    IN  IF X = <<>> THEN Raise("ValueError")
        ELSE IF ~IsNone(X_weights)
        THEN LET areas == Get(X_weights) \o [i \in 1..Len(X_p) |-> pois_weight]
                 X_W == IF log_weight THEN [i \in 1..Len(areas) |-> NpLog(areas[i])]
                        ELSE [i \in 1..Len(areas) |-> RInt(areas[i])]
             IN  Return(DivideByMax(WeightedKernelDensityEstimation(X, X_W, Y)))
        ELSE Return(DivideByMax(KernelDensity(X, Y)))

(***************************************************************************)
(* Tables.  A table is a sequence of rows; a row is a record of its        *)
(* columns, with its index label in the field "index".  A building row     *)
(* holds geometry, classification ("residential", "activity", "mixed"),    *)
(* landuses_m2 (a record of floor areas), building_levels,                 *)
(* activity_category and containing_poi (None or a sequence); a POI row    *)
(* holds geometry, classification, activity_category and osm_id.  The      *)
(* caller's building table is the record [rows, geom_building]:            *)
(* geom_building is None until line 121 adds the column.                   *)
(***************************************************************************)
\* the sum of s[lo..hi], by halves
RECURSIVE RSumRange(_, _, _)
RSumRange(s, lo, hi) ==
    IF lo > hi THEN RZero
    ELSE IF lo = hi THEN s[lo]
    ELSE RAdd(RSumRange(s, lo, (lo + hi) \div 2), RSumRange(s, ((lo + hi) \div 2) + 1, hi))
RSum(s) == RSumRange(s, 1, Len(s))

RECURSIVE SortedSeq(_)
SortedSeq(S) ==
    IF S = {} THEN <<>>
    ELSE LET m == CHOOSE x \in S : \A y \in S : x <= y
         IN  <<m>> \o SortedSeq(S \ {m})

\* the rows of s that satisfy P, in order
RECURSIVE Filter(_, _)
Filter(P(_), s) ==
    IF s = <<>> THEN <<>>
    ELSE (IF P(Head(s)) THEN <<Head(s)>> ELSE <<>>) \o Filter(P, Tail(s))

\* the elements of a set in some fixed order
RECURSIVE SetToSeq(_)
\* reset_index(drop=True): the rows are labelled 0..n-1
ResetIndex(rows) == [i \in 1..Len(rows) |-> [index |-> i - 1] @@ rows[i]]

\* a sequence of outcomes: whether one of them is an exception, and the first
Faulty(outcomes) == \E i \in 1..Len(outcomes) : ~Returned(outcomes[i])
FirstFault(outcomes) ==
    outcomes[CHOOSE i \in 1..Len(outcomes) :
                /\ ~Returned(outcomes[i])
                /\ \A j \in 1..(i - 1) : Returned(outcomes[j])]

SetToSeq(S) == IF S = {} THEN <<>> ELSE LET x == CHOOSE y \in S : TRUE IN <<x>> \o SetToSeq(S \ {x})

\* the concatenation of ss[lo..hi], by halves
RECURSIVE ConcatRange(_, _, _)
ConcatRange(ss, lo, hi) ==
    IF lo > hi THEN <<>>
    ELSE IF lo = hi THEN ss[lo]
    ELSE ConcatRange(ss, lo, (lo + hi) \div 2) \o ConcatRange(ss, ((lo + hi) \div 2) + 1, hi)
Concat(ss) == ConcatRange(ss, 1, Len(ss))

NoClass == "nan"
\* line 146
PlaceholderLanduses == [residential |-> 0, activity |-> 0]

(***************************************************************************)
(* urban_features.py: compute_full_urban_features, lines 120-291           *)
(***************************************************************************)
\* (mutant) the join pairs the geometries that share some area
SJoinOp_overlaps(a, b) == IntersectionArea(a, b) # RZero

\* line 125: op="intersects"
SJoinOp(a, b) == Intersects(a, b)

\* lines 123-126: gpd.sjoin(pop_features, df_osm_built, op="intersects",
\* how="left"): one row per cell and building whose geometries intersect, and
\* one row with null building columns for a cell without any.
SJoinCellsBuildings(pop_features, built_rows, geom_building) ==
    Concat([i \in 1..Len(pop_features) |->
        LET cell == pop_features[i]
            hits == Filter(LAMBDA k : SJoinOp(cell.geometry, built_rows[k].geometry),
                           [k \in 1..Len(built_rows) |-> k])
        IN  IF hits = <<>>
            THEN <<[index |-> cell.index, cell |-> cell, index_right |-> 0,
                    geom_building |-> None, classification |-> NoClass,
                    landuses_m2 |-> None, building_levels |-> None]>>
            ELSE [j \in 1..Len(hits) |->
                    [index |-> cell.index, cell |-> cell, index_right |-> hits[j],
                     geom_building |-> Some(geom_building[hits[j]]),
                     classification |-> built_rows[hits[j]].classification,
                     landuses_m2 |-> Some(built_rows[hits[j]].landuses_m2),
                     building_levels |-> Some(RInt(built_rows[hits[j]].building_levels))]]])

\* lines 128-150: the rows whose geom_building is null get the placeholder
FillNullBuildings(joined) ==
    [i \in 1..Len(joined) |->
        IF IsNone(joined[i].geom_building)
        THEN [joined[i] EXCEPT !.geom_building = Some(min_polygon),
                               !.landuses_m2 = Some(PlaceholderLanduses),
                               !.building_levels = Some(RZero)]
        ELSE joined[i]]

\* (mutant) a building counts whole in every cell that holds a part of it
building_ratio_whole(r) ==
    IF IntersectionArea(Get(r.geom_building), r.cell.geometry) = RZero THEN RZero ELSE ROne

\* lines 156-160: x.geom_building.intersection(x.geometry).area / x.geom_building.area
building_ratio(r) ==
    RDiv(IntersectionArea(Get(r.geom_building), r.cell.geometry), Area(Get(r.geom_building)))

\* a building of no area makes line 158 divide 0.0 by 0.0
RatioFaults(joined) ==
    \E i \in 1..Len(joined) : Area(Get(joined[i].geom_building)) = RZero

SummedColumns ==
    <<"m2_total_residential", "m2_total_activity",
      "m2_footprint_residential", "m2_footprint_activity", "m2_footprint_mixed",
      "num_built_activity", "num_built_residential", "num_built_mixed",
      "num_levels", "num_buildings", "built_up_m2">>

\* lines 156-232: the per-record features
RecordFeatures(r) ==
    LET ratio == building_ratio(r)
        area == Area(Get(r.geom_building))
        lu == Get(r.landuses_m2)
        OfClass(c, v) == IF r.classification = c THEN v ELSE RZero
    IN  [building_ratio |-> ratio,
         m2_total_residential |-> RMul(ratio, RInt(lu.residential)),
         m2_total_activity |-> RMul(ratio, RInt(lu.activity)),
         m2_footprint_residential |-> OfClass("residential", RMul(ratio, area)),
         m2_footprint_activity |-> OfClass("activity", RMul(ratio, area)),
         m2_footprint_mixed |-> OfClass("mixed", RMul(ratio, area)),
         num_built_activity |-> OfClass("activity", ratio),
         num_built_residential |-> OfClass("residential", ratio),
         num_built_mixed |-> OfClass("mixed", ratio),
         num_levels |-> RMul(ratio, Get(r.building_levels)),
         num_buildings |-> ratio,
         built_up_m2 |-> RMul(area, ratio)]

\* the overlap records with their features
OverlapRecords(pop_features, built_rows, geom_building) ==
    Map(LAMBDA j : [index |-> j.index, cell |-> j.cell, index_right |-> j.index_right,
                    features |-> RecordFeatures(j)],
        FillNullBuildings(SJoinCellsBuildings(pop_features, built_rows, geom_building)))

\* lines 234-270: group by the index label (groups in ascending label order),
\* first value of the identity and geometry columns, sum of the numeric
\* columns; then built_up_relation, and built_up_m2 dropped.
\* IdentityColumns: "idINSPIRE", "pop_count" for insee; "idx" for gpw.
AggregateByCell(records, IdentityColumns) ==
    LET labels == SortedSeq({records[i].index : i \in 1..Len(records)})
        Group(l) == Filter(LAMBDA r : r.index = l, records)
        Reduced(l) ==
            LET g == Group(l)
                first == g[1].cell
                Sum(c) == RSum([j \in 1..Len(g) |-> g[j].features[c]])
            IN  [c \in (IdentityColumns \cup {"index", "geometry"}) |-> first[c]]
                @@ [c \in (Range(SummedColumns) \ {"built_up_m2"}) |-> Sum(c)]
                @@ [built_up_relation |-> RDiv(Sum("built_up_m2"), Area(first.geometry))]
    IN  [k \in 1..Len(labels) |-> Reduced(labels[k])]

\* (mutant) the POIs of every classification are counted
CountActivityPois_any_class(pop_features, pois_rows) ==
    [i \in 1..Len(pop_features) |->
        pop_features[i] @@
        [num_activity_pois |->
            RInt(Len(Filter(LAMBDA q : Intersects(pop_features[i].geometry, q.geometry),
                            pois_rows)))]]

\* lines 276-291: the number of POIs classified activity or mixed whose
\* geometry intersects the cell
CountActivityPois(pop_features, pois_rows) ==
    LET selection == Filter(LAMBDA q : q.classification \in {"activity", "mixed"}, pois_rows)
    IN  [i \in 1..Len(pop_features) |->
            pop_features[i] @@
            [num_activity_pois |->
                RInt(Len(Filter(LAMBDA q : Intersects(pop_features[i].geometry, q.geometry),
                                selection)))]]

(***************************************************************************)
(* landusemix.py: compute_grid_landusemix                                  *)
(***************************************************************************)
\* the default kw_args (lines 62-68)
PoisWeightDefault == 9
DefaultLandusemixArgs ==
    [compute_activity_types_kde |-> TRUE, weighted_kde |-> TRUE,
     pois_weight |-> PoisWeightDefault, log_weighted |-> TRUE]

\* df[column] = pd.Series(values): the series is labelled 0..n-1 and the
\* assignment aligns it on the table's index labels; a row whose label is
\* not a label of the series gets NaN.
AssignSeries(rows, column, values) ==
    [i \in 1..Len(rows) |->
        [c \in (DOMAIN rows[i]) \cup {column} |->
            IF c # column THEN rows[i][c]
            ELSE IF rows[i].index \in 0..(Len(values) - 1) THEN values[rows[i].index + 1]
            ELSE NaN]]

\* (mutant) every POI counts as uncontained
PoisNotContained_all(built_rows, pois_rows) == pois_rows

\* lines 108-123: the POIs that no building lists in containing_poi
PoisNotContained(built_rows, pois_rows) ==
    LET contained_pois ==
            UNION {Range(Get(built_rows[k].containing_poi)) :
                   k \in {j \in 1..Len(built_rows) : ~IsNone(built_rows[j].containing_poi)}}
    IN  Filter(LAMBDA q : q.index \notin contained_pois, pois_rows)

\* lines 182-204: the category tags of all buildings and of the uncontained
\* activity POIs
ActivityCategories(built_rows, pois_not_cont_indexed) ==
    UNION {Range(Get(built_rows[k].activity_category)) :
           k \in {j \in 1..Len(built_rows) : ~IsNone(built_rows[j].activity_category)}}
    \cup
    UNION {Range(Get(pois_not_cont_indexed[k].activity_category)) :
           k \in {j \in 1..Len(pois_not_cont_indexed) :
                    ~IsNone(pois_not_cont_indexed[j].activity_category)}}

HasCategory(row, cat) ==
    ~IsNone(row.activity_category) /\ cat \in Range(Get(row.activity_category))

\* the point set and the weights of one surface, as handed to calculate_kde
SurfaceInput(built_sel, pois_sel, landuse, kw_args) ==
    [df_osm_built |-> built_sel,
     df_osm_pois |-> pois_sel,
     X_weights |-> IF kw_args.weighted_kde
                   THEN Some([i \in 1..Len(built_sel) |-> built_sel[i].landuses_m2[landuse]])
                   ELSE None]

ResidentialInput(built_rows, kw_args) ==
    SurfaceInput(Filter(LAMBDA b : b.classification \in {"residential", "mixed"}, built_rows),
                 None, "residential", kw_args)

ActivityBuildings(built_rows) ==
    Filter(LAMBDA b : b.classification \in {"activity", "mixed"}, built_rows)

ActivityPois(built_rows, pois_rows) ==
    Filter(LAMBDA q : q.classification \in {"activity", "mixed"},
           PoisNotContained(built_rows, pois_rows))

ActivityInput(built_rows, pois_rows, kw_args) ==
    SurfaceInput(ActivityBuildings(built_rows), Some(ActivityPois(built_rows, pois_rows)),
                 "activity", kw_args)

CategoryInput(cat, built_rows, pois_rows, kw_args) ==
    SurfaceInput(Filter(LAMBDA b : HasCategory(b, cat), ActivityBuildings(built_rows)),
                 Some(Filter(LAMBDA q : HasCategory(q, cat), ActivityPois(built_rows, pois_rows))),
                 cat, kw_args)

SurfaceOf(df_indices, input, kw_args) ==
    calculate_kde([i \in 1..Len(df_indices) |-> <<df_indices[i].geometry.x0, df_indices[i].geometry.y0>>],
                  input.df_osm_built, input.df_osm_pois, input.X_weights,
                  kw_args.pois_weight, kw_args.log_weighted)

\* x.activity_pdf + x.residential_pdf, halved                 (lines 240-242)
LanduseIntensity(a, r) ==
    IF IsFinite(a) /\ IsFinite(r) THEN RMul(RAdd(a, r), <<1, 2>>)
    ELSE IF IsNaN(a) \/ IsNaN(r) \/ a # r THEN NaN
    ELSE a

\* landusemix of a row: an infinite density compares like a number in lines
\* 39-43 and gives NaN in line 45
LandUseMix(a, r) ==
    IF IsFinite(a) /\ IsFinite(r) THEN metric_phi_entropy(a, r)
    ELSE IF IsNaN(a) \/ IsNaN(r) THEN NaN
    ELSE IF a = NegInf \/ r = NegInf THEN NaN
    ELSE IF a = RZero \/ r = RZero THEN RZero
    ELSE NaN

\* lines 140, 165, 223: df_indices[column] = calculate_kde(...); out is the
\* table so far or the exception raised so far
AddSurface(out, column, surface) ==
    IF ~Returned(out) THEN out
    ELSE IF ~Returned(surface) THEN surface
    ELSE Return(AssignSeries(out.value, column, surface.value))

\* lines 206-231
RECURSIVE AddCategorySurfaces(_, _, _, _, _)
AddCategorySurfaces(out, cats, built_rows, pois_rows, kw_args) ==
    IF cats = <<>> \/ ~Returned(out) THEN out
    ELSE AddCategorySurfaces(
            AddSurface(out, Head(cats) \o "_pdf",
                       SurfaceOf(out.value,
                                 CategoryInput(Head(cats), built_rows, pois_rows, kw_args),
                                 kw_args)),
            Tail(cats), built_rows, pois_rows, kw_args)

\* lines 236-242
AddLandUseMix(out) ==
    IF ~Returned(out) THEN out
    ELSE Return(Map(LAMBDA row :
                        row @@ [landusemix |-> LandUseMix(row.activity_pdf, row.residential_pdf),
                                landuse_intensity |->
                                    LanduseIntensity(row.activity_pdf, row.residential_pdf)],
                    out.value))

\* lines 99-247.  The function writes its columns into df_indices; the value
\* returned here is the table after the call, or the exception raised.
compute_grid_landusemix(df_indices, built_rows, pois_rows, kw_args) ==
    AddLandUseMix(
        AddCategorySurfaces(
            AddSurface(
                AddSurface(Return(df_indices), "residential_pdf",
                           SurfaceOf(df_indices, ResidentialInput(built_rows, kw_args), kw_args)),
                "activity_pdf",
                SurfaceOf(df_indices, ActivityInput(built_rows, pois_rows, kw_args), kw_args)),
            IF kw_args.compute_activity_types_kde
            THEN SetToSeq(ActivityCategories(built_rows, ActivityPois(built_rows, pois_rows)))
            ELSE <<>>,
            built_rows, pois_rows, kw_args))

(***************************************************************************)
(* Strings: a string whose characters matter is the sequence of its        *)
(* characters.                                                             *)
(***************************************************************************)
\* Cell identifiers.  A value of the idINSPIRE column is a string, the float
\* NaN (a cell added by the fill has no identifier) or the integer 0 (after
\* fillna); chars is str(value), one character per element.
StrId(chars) == [type |-> "str", chars |-> chars]
NaNId == [type |-> "float", chars |-> <<"n", "a", "n">>]
ZeroId == [type |-> "int", chars |-> <<"0">>]

Digits == <<"0", "1", "2", "3", "4", "5", "6", "7", "8", "9">>
DigitValue(c) == (CHOOSE k \in 1..10 : Digits[k] = c) - 1
IsDigit(c) == \E k \in 1..10 : Digits[k] = c

\* str(n) for an integer n
RECURSIVE NatToStr(_)
NatToStr(n) == IF n < 10 THEN <<Digits[n + 1]>> ELSE NatToStr(n \div 10) \o <<Digits[(n % 10) + 1]>>
IntToStr(n) == IF n < 0 THEN <<"-">> \o NatToStr(-n) ELSE NatToStr(n)

RECURSIVE DigitsToNat(_)
DigitsToNat(chars) ==
    IF chars = <<>> THEN 0
    ELSE 10 * DigitsToNat(SubSeq(chars, 1, Len(chars) - 1)) + DigitValue(chars[Len(chars)])

\* int(s): Some(n), or None where int raises ValueError
ParseInt(chars) ==
    LET body == IF chars # <<>> /\ chars[1] = "-" THEN Tail(chars) ELSE chars
    IN  IF body = <<>> \/ \E i \in 1..Len(body) : ~IsDigit(body[i]) THEN None
        ELSE Some(IF body = chars THEN DigitsToNat(body) ELSE -DigitsToNat(body))

\* s.split(sep) for a one-character separator
RECURSIVE Split(_, _)
Split(chars, sep) ==
    IF \A i \in 1..Len(chars) : chars[i] # sep THEN <<chars>>
    ELSE LET k == CHOOSE i \in 1..Len(chars) :
                    chars[i] = sep /\ \A j \in 1..(i - 1) : chars[j] # sep
         IN  <<SubSeq(chars, 1, k - 1)>> \o Split(SubSeq(chars, k + 1, Len(chars)), sep)

\* needle in hay; Series.str.contains(needle) for a needle without regular
\* expression operators
Contains(hay, needle) ==
    \E i \in 0..(Len(hay) - Len(needle)) : SubSeq(hay, i + 1, i + Len(needle)) = needle

\* the prefix of an INSEE identifier, "CRS3035RES200m"
InspirePrefix == <<"C", "R", "S", "3", "0", "3", "5", "R", "E", "S", "2", "0", "0", "m">>
InspireId(north, east) ==
    StrId(InspirePrefix \o <<"N">> \o IntToStr(north) \o <<"E">> \o IntToStr(east))
\* the identifier get_training_testing_data gives the cells the fill added
CrsId == StrId(<<"C", "R", "S">>)

\* north, east = x.idINSPIRE.split("N")[1].split("E"); int(north), int(east)
\* Returns <<north, east>> or raises as the statement does.
NorthingEasting(idINSPIRE) ==
    IF idINSPIRE.type # "str" THEN Raise("AttributeError")
    ELSE LET parts == Split(idINSPIRE.chars, "N")
         IN  IF Len(parts) < 2 THEN Raise("IndexError")
             ELSE LET ne == Split(parts[2], "E")
                  IN  IF Len(ne) # 2 THEN Raise("ValueError")
                      ELSE IF IsNone(ParseInt(ne[1])) \/ IsNone(ParseInt(ne[2]))
                      THEN Raise("ValueError")
                      ELSE Return(<<Get(ParseInt(ne[1])), Get(ParseInt(ne[2]))>>)

\* np.arange(start, stop, step) for whole numbers
RECURSIVE Arange(_, _, _)
Arange(start, stop, step) ==
    IF start >= stop THEN <<>> ELSE <<start>> \o Arange(start + step, stop, step)

\* zip(xv.ravel(), yv.ravel()) of np.meshgrid(xs, ys): the pairs <<x, y>>,
\* rows of equal y one after the other, x ascending within a row
MeshPoints(xs, ys) ==
    [k \in 1..(Len(xs) * Len(ys)) |->
        <<xs[((k - 1) % Len(xs)) + 1], ys[((k - 1) \div Len(xs)) + 1]>>]

SeqMin(s) == CHOOSE m \in Range(s) : \A v \in Range(s) : m <= v
SeqMaxInt(s) == CHOOSE m \in Range(s) : \A v \in Range(s) : m >= v

(***************************************************************************)
(* population/utils.py: get_population_df_filled_empty_squares             *)
(***************************************************************************)
Corners(g) == {<<g.x0, g.y0>>, <<g.x0, g.y1>>, <<g.x1, g.y0>>, <<g.x1, g.y1>>}
Cross(p, q, r) == (q[1] - p[1]) * (r[2] - p[2]) - (q[2] - p[2]) * (r[1] - p[1])

\* (mutant) every added cell is kept
ConvexHullIntersects_all(rows, g) == TRUE

\* unary_union.convex_hull.intersects(g): two convex polygons are apart
\* exactly when a side of one of them separates them.
ConvexHullIntersects(rows, g) ==
    LET P == UNION {Corners(rows[i].geometry) : i \in 1..Len(rows)}
        xs == {p[1] : p \in P}
        ys == {p[2] : p \in P}
    IN  /\ \E x \in xs : x >= g.x0
        /\ \E x \in xs : x <= g.x1
        /\ \E y \in ys : y >= g.y0
        /\ \E y \in ys : y <= g.y1
        /\ ~\E p \in P, q \in P :
                /\ p # q
                /\ \A r \in P : Cross(p, q, r) >= 0
                /\ \A c \in Corners(g) : Cross(p, q, c) < 0

\* lines 375-411: the centres of the mesh that no cell holds become cells of
\* population 0 without identifier
EmptySquares(df_insee, mesh) ==
    Map(LAMBDA c : [index |-> 0, idINSPIRE |-> NaNId, pop_count |-> RZero,
                    geometry |-> Rect(c[1] - CellSize \div 2, c[1] + CellSize \div 2,
                                      c[2] - CellSize \div 2, c[2] + CellSize \div 2)],
        Filter(LAMBDA c : \A i \in 1..Len(df_insee) :
                    ~Intersects(PointGeom(c[1], c[2]), df_insee[i].geometry),
               mesh))

\* lines 349-372: the mesh of the cell centres over the extent of the table
FillMesh(north, east) ==
    MeshPoints(
        Arange(SeqMin(east) + CellSize \div 2, SeqMaxInt(east) + CellSize \div 2, CellSize),
        Arange(SeqMin(north) + CellSize \div 2, SeqMaxInt(north) + CellSize \div 2, CellSize))

\* lines 349-423 once the identifiers are parsed
FillParsed(df_insee, parsed) ==
    IF Faulty(parsed) THEN FirstFault(parsed)
    ELSE Return(ResetIndex(
            Filter(LAMBDA r : ConvexHullIntersects(df_insee, r.geometry),
                   df_insee \o EmptySquares(df_insee,
                                            FillMesh(Map(LAMBDA o : o.value[1], parsed),
                                                     Map(LAMBDA o : o.value[2], parsed))))))

\* lines 338-423.  df_insee: the rows of the population grid.  Returns the
\* filled table, or raises as get_northing_easting does.
get_population_df_filled_empty_squares(df_insee) ==
    FillParsed(df_insee, Map(LAMBDA r : NorthingEasting(r.idINSPIRE), df_insee))

(***************************************************************************)
(* population/utils.py: get_aggregated_squares                             *)
(***************************************************************************)
\* lines 144-151: the coordinates of an identifier, None where the except
\* clause gives NaN; an identifier that is not a string raises (AttributeError
\* is not caught)
CaughtAsNaN(r) ==
    IF Returned(r) THEN Return(Some(r.value))
    ELSE IF r.raised \in {"IndexError", "ValueError"} THEN Return(None)
    ELSE r

NorthingEastingOrNaN(idINSPIRE) == CaughtAsNaN(NorthingEasting(idINSPIRE))

BlockOffsets == <<-400, -200, 0, 200, 400>>

\* lines 186-191: "N" + str(int(x.NE.y) + y_diff - 100) + "E" + str(int(x.NE.x) + x_diff - 100)
CoordsMatch(NE, y_diff, x_diff) ==
    <<"N">> \o IntToStr(NE[2] + y_diff - 100) \o <<"E">> \o IntToStr(NE[1] + x_diff - 100)

\* (mutant) a slot keeps the first matching cell only
SlotEntries_first(df_insee, coords_match) ==
    LET values == Filter(LAMBDA r : Contains(r.idINSPIRE.chars, coords_match), df_insee)
    IN  IF Len(values) = 0 THEN <<None>> ELSE <<Some(values[1].index)>>

\* lines 192-198: the entries one slot adds to the list
SlotEntries(df_insee, coords_match) ==
    LET values == Filter(LAMBDA r : Contains(r.idINSPIRE.chars, coords_match), df_insee)
    IN  IF Len(values) = 0 THEN <<None>>
        ELSE [k \in 1..Len(values) |-> Some(values[k].index)]

\* lines 176-200: north offsets outside, east offsets inside
BlockIndices(df_insee, NE) ==
    Concat([k \in 1..(Len(BlockOffsets) * Len(BlockOffsets)) |->
        SlotEntries(df_insee,
                    CoordsMatch(NE, BlockOffsets[((k - 1) \div Len(BlockOffsets)) + 1],
                                    BlockOffsets[((k - 1) % Len(BlockOffsets)) + 1]))])

\* lines 154-162, 166-174: the cells within offset_index of the centre (the
\* .cx slice keeps what intersects the box), their union and their population
BlockSquares(df_insee, centre, offset_index) ==
    Filter(LAMBDA r : Intersects(r.geometry,
                                 Rect(centre[1] - offset_index, centre[1] + offset_index,
                                      centre[2] - offset_index, centre[2] + offset_index)),
           df_insee)

\* lines 166-201: the row of one block.  The union of the footprints is kept
\* as the set of them: its area is 0 when every one of them has area 0.
AggregatedSquare(df_insee, NE, conserve_squares_info) ==
    [geometry |-> {r.geometry : r \in Range(BlockSquares(df_insee, NE, 400))},
     pop_count |-> RSum(Map(LAMBDA r : r.pop_count, BlockSquares(df_insee, NE, 400))),
     indices |-> IF conserve_squares_info THEN BlockIndices(df_insee, NE) ELSE <<>>]

\* lines 229-260: one block per point, those of no area dropped
SquaresAt(df_insee, points, conserve_squares_info) ==
    IF points = <<>> THEN Raise("AssertionError")  \* project_gdf of an empty table
    ELSE Return(ResetIndex(
            Filter(LAMBDA b : \E g \in b.geometry : Area(g) # RZero,
                   Map(LAMBDA NE : AggregatedSquare(df_insee, NE, conserve_squares_info),
                       points))))

\* lines 209-229: the mesh over the extent of the known coordinates
SquaresOver(df_insee, known, step, coords_offset, conserve_squares_info) ==
    IF known = <<>> THEN Raise("ValueError")     \* np.arange(nan, nan, step)
    ELSE SquaresAt(df_insee,
                   MeshPoints(
                        Arange(SeqMin(Map(LAMBDA c : Get(c)[2], known)) + coords_offset,
                               SeqMaxInt(Map(LAMBDA c : Get(c)[2], known)) + coords_offset, step),
                        Arange(SeqMin(Map(LAMBDA c : Get(c)[1], known)) + coords_offset,
                               SeqMaxInt(Map(LAMBDA c : Get(c)[1], known)) + coords_offset, step)),
                   conserve_squares_info)

SquaresParsed(df_insee, parsed, step, conserve_squares_info) ==
    IF Faulty(parsed) THEN FirstFault(parsed)
    ELSE SquaresOver(df_insee,
                     Filter(LAMBDA c : ~IsNone(c), Map(LAMBDA o : o.value, parsed)),
                     step, IF conserve_squares_info THEN 100 ELSE 500, conserve_squares_info)

\* lines 117-264.  Returns the blocks or raises.
get_aggregated_squares(df_insee, step, conserve_squares_info) ==
    SquaresParsed(df_insee, Map(LAMBDA r : NorthingEastingOrNaN(r.idINSPIRE), df_insee),
                  step, conserve_squares_info)

(***************************************************************************)
(* urban_features.py: compute_full_urban_features, lines 293-323           *)
(***************************************************************************)
\* (mutant) the footprints are kept aside and left in the geometry column
ToCentroids_keeps_footprints(rows) ==
    [i \in 1..Len(rows) |->
        [c \in (DOMAIN rows[i]) \cup {"geometry_squares"} |->
            IF c = "geometry_squares" THEN rows[i].geometry ELSE rows[i][c]]]

\* lines 296-297: the footprints are kept aside and replaced by centroids
ToCentroids(rows) ==
    [i \in 1..Len(rows) |->
        [c \in (DOMAIN rows[i]) \cup {"geometry_squares"} |->
            IF c = "geometry_squares" THEN rows[i].geometry
            ELSE IF c = "geometry"
            THEN PointGeom(Centroid(rows[i].geometry)[1], Centroid(rows[i].geometry)[2])
            ELSE rows[i][c]]]

\* lines 307-308
RestoreGeometries(rows) ==
    [i \in 1..Len(rows) |->
        [c \in (DOMAIN rows[i]) \ {"geometry_squares"} |->
            IF c = "geometry" THEN rows[i].geometry_squares ELSE rows[i][c]]]

\* sprawl/dispersion.py compute_grid_dispersion(df_indices, df_osm_built,
\* dispersion_args): writes the column "dispersion".  The estimator is a
\* collaborator: its values are an input of the model, dispersion_values,
\* taken in row order and repeated when the table is longer.
compute_grid_dispersion(df_indices, dispersion_values) ==
    [i \in 1..Len(df_indices) |->
        df_indices[i] @@
        [dispersion |-> dispersion_values[((i - 1) % Len(dispersion_values)) + 1]]]

\* lines 310-314: kwargs.get("max_dispersion") is None or a number; 0 and
\* None skip the cap, and NaN > cap is false
CapDispersion(rows, max_dispersion) ==
    IF IsNone(max_dispersion) \/ Get(max_dispersion) = 0 THEN rows
    ELSE [i \in 1..Len(rows) |->
            IF IsFinite(rows[i].dispersion) /\ RLess(RInt(Get(max_dispersion)), rows[i].dispersion)
            THEN [rows[i] EXCEPT !.dispersion = RInt(Get(max_dispersion))]
            ELSE rows[i]]

\* (mutant) the NaN values are left in the table
FillNa_keeps_nan(rows) == rows

\* line 317: fillna(0) on every column
FillNa(rows) ==
    [i \in 1..Len(rows) |->
        [c \in DOMAIN rows[i] |->
            IF c \in {"index", "geometry", "idx"} THEN rows[i][c]
            ELSE IF c = "idINSPIRE" THEN (IF rows[i][c] = NaNId THEN ZeroId ELSE rows[i][c])
            ELSE IF IsNaN(rows[i][c]) THEN RZero
            ELSE rows[i][c]]]

\* lines 320-323 and 89-93: the table as a GeoJSON file gives back.  The file
\* keeps the rows in order without their index labels, and an identifier is
\* text in it.  (The two projections, exact here, are not modelled.)
GeoJsonRoundTrip(rows) ==
    [i \in 1..Len(rows) |->
        [c \in DOMAIN rows[i] |->
            IF c = "index" THEN i - 1
            ELSE IF c = "idINSPIRE" THEN StrId(rows[i][c].chars)
            ELSE rows[i][c]]]

\* (mutant) line 121 moves the footprints: the geometry column is left with
\* the centroids, as lines 296-297 do for the cells
ConserveGeometries_moves(df_osm_built) ==
    [rows |-> [i \in 1..Len(df_osm_built.rows) |->
                [df_osm_built.rows[i] EXCEPT
                    !.geometry = PointGeom(Centroid(@)[1], Centroid(@)[2])]],
     geom_building |-> Some([i \in 1..Len(df_osm_built.rows) |-> df_osm_built.rows[i].geometry])]

\* line 121: df_osm_built["geom_building"] = df_osm_built["geometry"]
ConserveGeometries(df_osm_built) ==
    [df_osm_built EXCEPT
        !.geom_building = Some([i \in 1..Len(df_osm_built.rows) |-> df_osm_built.rows[i].geometry])]

\* the default kwargs, line 51
MaxDispersionDefault == 15

IdentityColumns(data_source) ==
    IF data_source = "insee" THEN {"idINSPIRE", "pop_count"} ELSE {"idx"}

\* lines 303-317: mixed is the table after compute_grid_landusemix or the
\* exception it raised
DispersionAndFill(mixed, dispersion_values, max_dispersion) ==
    IF ~Returned(mixed) THEN mixed
    ELSE Return(FillNa(CapDispersion(
            RestoreGeometries(compute_grid_dispersion(mixed.value, dispersion_values)),
            max_dispersion)))

\* lines 123-323 without the save: pop_features is the cell table of line
\* 102/106, df_osm_built the building table after line 121
UrbanFeaturesPipeline(pop_features, df_osm_built, pois_rows, data_source, landusemix_args, dispersion_values, max_dispersion) ==
    IF RatioFaults(FillNullBuildings(
            SJoinCellsBuildings(pop_features, df_osm_built.rows, Get(df_osm_built.geom_building))))
    THEN Raise("ZeroDivisionError")
    ELSE DispersionAndFill(
            compute_grid_landusemix(
                ToCentroids(CountActivityPois(
                    AggregateByCell(
                        OverlapRecords(pop_features, df_osm_built.rows,
                                       Get(df_osm_built.geom_building)),
                        IdentityColumns(data_source)),
                    pois_rows)),
                df_osm_built.rows, pois_rows, landusemix_args),
            dispersion_values, max_dispersion)

(***************************************************************************)
(* urban_features.py: compute_full_urban_features                          *)
(*                                                                         *)
(* The storage folder is the record disk = [folders, files]: the folders   *)
(* made under it and the files in them, a function from names to contents. *)
(* The content of a feature file is the table that reading it gives.       *)
(***************************************************************************)
EmptyDisk == [folders |-> {}, files |-> <<>>]
FileExists(disk, filename) == filename \in DOMAIN disk.files
WriteFile(disk, filename, content) ==
    [disk EXCEPT !.files = (filename :> content) @@ disk.files]

\* population/utils.py lines 71-83: the folder of the data source is made
\* when it is not there
get_population_urban_features_filename(city_ref, data_source) ==
    data_source \o "/" \o city_ref \o "_urban_features.geojson"
\* (mutant) the file of the features is made along with the folder
MakeFolder_and_file(disk, data_source) ==
    [folders |-> disk.folders \cup {data_source},
     files |-> (get_population_urban_features_filename("city", data_source) :> <<>>) @@ disk.files]

MakeFolder(disk, data_source) == [disk EXCEPT !.folders = @ \cup {data_source}]

\* (mutant) an unrecognised source is taken for "gpw": line 107 reads
\* pop_features = pop_grid
RecognisedSource_any(data_source) == TRUE

\* lines 101-108: "insee" and "gpw" are the recognised sources
RecognisedSource(data_source) == data_source \in {"insee", "gpw"}

\* lines 320-334: the table is stored and returned; out is the table or the
\* exception raised on the way
StoreFeatures(probed, filename, df_osm_built, out) ==
    [outcome |-> out,
     disk |-> IF Returned(out) THEN WriteFile(probed, filename, GeoJsonRoundTrip(out.value))
              ELSE probed,
     df_osm_built |-> Some(df_osm_built),
     joined |-> TRUE]

\* lines 101-334: filled is the cell table of line 102/106 or the exception
\* raised by the fill
ComputeFeatures(probed, filename, df_osm_built, df_osm_pois, filled, data_source, landusemix_args, dispersion_values, max_dispersion) ==
    IF ~Returned(filled)
    THEN [outcome |-> Raise(filled.raised), disk |-> probed,
          df_osm_built |-> Some(df_osm_built), joined |-> FALSE]
    ELSE StoreFeatures(probed, filename, ConserveGeometries(df_osm_built),
                       UrbanFeaturesPipeline(filled.value, ConserveGeometries(df_osm_built),
                                             df_osm_pois, data_source, landusemix_args,
                                             dispersion_values, max_dispersion))

\* lines 80-334.  df_osm_built, df_osm_pois, pop_grid, data_source and
\* max_dispersion are None or Some(value).  The result holds the outcome of
\* the call, the disk and the caller's building table after it, and whether
\* the spatial join of line 124 was performed.
compute_full_urban_features(disk, city_ref, df_osm_built, df_osm_pois, pop_grid, data_source, landusemix_args, dispersion_values, max_dispersion) ==
    IF IsNone(data_source)
    THEN \* line 82: storage_folder + "/" + None
         [outcome |-> Raise("TypeError"), disk |-> disk, df_osm_built |-> df_osm_built,
          joined |-> FALSE]
    ELSE
    LET filename == get_population_urban_features_filename(city_ref, Get(data_source))
        probed == MakeFolder(disk, Get(data_source))
        Stop(e) == [outcome |-> Raise(e), disk |-> probed, df_osm_built |-> df_osm_built,
                    joined |-> FALSE]
    IN  IF FileExists(disk, filename)
        THEN [outcome |-> Return(disk.files[filename]), disk |-> probed,
              df_osm_built |-> df_osm_built, joined |-> FALSE]
        ELSE IF IsNone(df_osm_built) \/ IsNone(df_osm_pois) \/ IsNone(pop_grid)
        THEN Stop("AssertionError")
        ELSE IF ~RecognisedSource(Get(data_source))
        THEN Stop("ValueError")
        ELSE ComputeFeatures(probed, filename, Get(df_osm_built), Get(df_osm_pois),
                             IF Get(data_source) = "insee"
                             THEN get_population_df_filled_empty_squares(Get(pop_grid))
                             ELSE Return(Get(pop_grid)),
                             Get(data_source), landusemix_args, dispersion_values,
                             max_dispersion)

(***************************************************************************)
(* urban_features.py: get_training_testing_data                            *)
(***************************************************************************)
\* population/utils.py lines 86-111: data_source defaults to "training"
get_population_training_validating_filename(city_ref) ==
    "training" \o "/" \o city_ref \o "_X_Y.npz"

\* the columns of a feature table in their order, without idINSPIRE,
\* geometry and pop_count (lines 428-434, 441-447)
FeatureColumnOrder(row) ==
    LET head == <<"idx", "m2_total_residential", "m2_total_activity", "m2_footprint_residential",
                  "m2_footprint_activity", "m2_footprint_mixed", "num_built_activity",
                  "num_built_residential", "num_built_mixed", "num_levels", "num_buildings",
                  "built_up_relation", "num_activity_pois", "residential_pdf", "activity_pdf">>
        tail == <<"landusemix", "landuse_intensity", "dispersion">>
        others == (DOMAIN row) \ (Range(head) \cup Range(tail)
                                  \cup {"index", "idINSPIRE", "geometry", "pop_count"})
    IN  Filter(LAMBDA c : c \in DOMAIN row, head) \o SetToSeq(others)
        \o Filter(LAMBDA c : c \in DOMAIN row, tail)

\* lines 376-383: the columns whose name holds "num_", "m2_", "dispersion" or
\* "accessibility"
ColumnsToNormalise(row) ==
    (DOMAIN row) \cap
    {"m2_total_residential", "m2_total_activity", "m2_footprint_residential",
     "m2_footprint_activity", "m2_footprint_mixed", "num_built_activity",
     "num_built_residential", "num_built_mixed", "num_levels", "num_buildings",
     "num_activity_pois", "dispersion"}

\* x.max() of a column: NaN values are skipped
ColumnMax(rows, c) ==
    LET finite == {rows[i][c] : i \in {j \in 1..Len(rows) : ~IsNaN(rows[j][c])}}
    IN  IF finite = {} THEN NaN ELSE CHOOSE m \in finite : \A v \in finite : RLeq(v, m)

\* lines 385-389: x / x.max() on the selected columns, in place
NormaliseColumns(rows) ==
    IF rows = <<>> THEN rows
    ELSE [i \in 1..Len(rows) |->
            [c \in DOMAIN rows[i] |->
                IF c \in ColumnsToNormalise(rows[1])
                THEN NpDivide(rows[i][c], ColumnMax(rows, c))
                ELSE rows[i][c]]]

\* lines 394-396: the identifier "0" becomes "CRS", in place
RenameZeroIds(rows) ==
    [i \in 1..Len(rows) |->
        IF rows[i].idINSPIRE = StrId(<<"0">>) THEN [rows[i] EXCEPT !.idINSPIRE = CrsId]
        ELSE rows[i]]

\* line 416: pop_features.reindex(idx).fillna(0), the columns that are used
SquareInfo(pop_features, idx) ==
    LET columns == <<"pop_count">> \o FeatureColumnOrder(pop_features[1])
        RowOf(entry) ==
            LET hits == IF IsNone(entry) THEN <<>>
                        ELSE Filter(LAMBDA r : r.index = Get(entry), pop_features)
            IN  [c \in Range(columns) |->
                    IF hits = <<>> THEN RZero
                    ELSE IF IsNaN(hits[1][c]) THEN RZero
                    ELSE hits[1][c]]
    IN  [k \in 1..Len(idx) |-> RowOf(idx[k])]

\* (mutant) the populations are not divided by their sum
PopulationDensities_counts(square_info) ==
    [k \in 1..Len(square_info) |-> square_info[k].pop_count]

\* lines 418-420
PopulationDensities(square_info) ==
    LET total == RSum([k \in 1..Len(square_info) |-> square_info[k].pop_count])
    IN  [k \in 1..Len(square_info) |-> NpDivide(square_info[k].pop_count, total)]

\* lines 428-434
UrbanFeatures(square_info, pop_features) ==
    [k \in 1..Len(square_info) |->
        [j \in 1..Len(FeatureColumnOrder(pop_features[1])) |->
            square_info[k][FeatureColumnOrder(pop_features[1])[j]]]]

\* (mutant) the arrays of a stored file are returned as X, Y, X_columns
LoadArrays_swapped(data) == <<data.X, data.Y, data.X_columns>>

\* line 367: return data["Y"], data["X"], data["X_columns"]
LoadArrays(data) == <<data.Y, data.X, data.X_columns>>

\* lines 449-467: the arrays are stored and returned
StoreArrays(probed, filename, pop_features, Y_values, X_values, X_values_columns) ==
    [outcome |-> Return(<<Y_values, X_values, X_values_columns>>),
     disk |-> WriteFile(probed, filename,
                        [X |-> X_values, Y |-> Y_values, X_columns |-> X_values_columns]),
     pop_features |-> Some(pop_features)]

\* lines 411-447: the blocks whose densities are not all NaN give one entry
\* of Y and of X each; X_columns reads the loop variable square_info
ArraysOfBlocks(probed, filename, pop_features, used) ==
    StoreArrays(probed, filename, pop_features,
                Map(LAMBDA info : PopulationDensities(info), used),
                Map(LAMBDA info : UrbanFeatures(info, pop_features), used),
                FeatureColumnOrder(pop_features[1]))

\* lines 399-447: aggregated is the outcome of get_aggregated_squares
TrainingOfBlocks(probed, filename, pop_features, aggregated) ==
    IF ~Returned(aggregated)
    THEN [outcome |-> Raise(aggregated.raised), disk |-> probed,
          pop_features |-> Some(pop_features)]
    ELSE IF aggregated.value = <<>>
    THEN [outcome |-> Raise("NameError"), disk |-> probed, pop_features |-> Some(pop_features)]
    ELSE ArraysOfBlocks(probed, filename, pop_features,
            Filter(LAMBDA info :
                        ~\A k \in 1..Len(info) : IsNaN(PopulationDensities(info)[k]),
                   Map(LAMBDA b : SquareInfo(pop_features, b.indices), aggregated.value)))

\* lines 391-467: normalised is the table after lines 385-389
TrainingOfTable(probed, filename, normalised) ==
    IF normalised = <<>> \/ "idINSPIRE" \notin DOMAIN normalised[1]
    THEN [outcome |-> Raise("AttributeError"), disk |-> probed,
          pop_features |-> Some(normalised)]
    ELSE TrainingOfBlocks(probed, filename, RenameZeroIds(normalised),
                          get_aggregated_squares(RenameZeroIds(normalised), CellSize, TRUE))

\* lines 358-467.  pop_features is None or Some(table); the table is changed
\* in place.  The result holds the outcome, the disk and the caller's table
\* after the call.
get_training_testing_data(disk, city_ref, pop_features) ==
    IF FileExists(disk, get_population_training_validating_filename(city_ref))
    THEN [outcome |-> Return(LoadArrays(
                        disk.files[get_population_training_validating_filename(city_ref)])),
          disk |-> MakeFolder(disk, "training"), pop_features |-> pop_features]
    ELSE IF IsNone(pop_features)
    THEN [outcome |-> Raise("AttributeError"), disk |-> MakeFolder(disk, "training"),
          pop_features |-> pop_features]
    ELSE TrainingOfTable(MakeFolder(disk, "training"),
                         get_population_training_validating_filename(city_ref),
                         NormaliseColumns(Get(pop_features)))

(***************************************************************************)
(* SpecPhi: metric_phi_entropy applied to every pair of a bounded range.   *)
(***************************************************************************)
PhiMaxArg == 4
PhiMinArg == 3
PhiArgs == {RInt(i) : i \in (0 - PhiMinArg)..PhiMaxArg}

PhiIdle == phi_x = RZero /\ phi_y = RZero /\ phi_out = NotRun
KdeIdle == kde_in = <<>> /\ kde_out = NotRun
FeatIdle == feat_in = <<>> /\ feat_records = <<>> /\ feat_out = NotRun
BlockIdle == block_in = <<>> /\ block_out = NotRun
MainIdle ==
    /\ world = <<>> /\ caller_built = <<>> /\ caller_features = <<>> /\ storage = <<>>
    /\ last_call = <<>> /\ calls = 0 /\ written = <<>> /\ computed = <<>>
AssocIdle == assoc_frame = <<>> /\ assoc_last = <<>>
FillIdle == fill_in = <<>> /\ fill_out = NotRun
MixIdle == mix_in = <<>> /\ mix_out = NotRun
TrainIdle == train_in = <<>> /\ train_out = NotRun
UnitIdle == AssocIdle /\ FillIdle /\ MixIdle /\ TrainIdle

PhiInit ==
    /\ phi_x \in PhiArgs
    /\ phi_y \in PhiArgs
    /\ phi_out = NotRun
    /\ KdeIdle /\ FeatIdle /\ BlockIdle /\ MainIdle /\ UnitIdle

CallPhi ==
    /\ phi_out = NotRun
    /\ phi_out' = metric_phi_entropy(phi_x, phi_y)
    /\ UNCHANGED <<phi_x, phi_y, kde_vars, feat_vars, block_vars, main_vars, unit_vars>>

PhiNext == CallPhi

SpecPhi == PhiInit /\ [][PhiNext]_vars

PhiCalled == phi_out # NotRun

\* C2: for x, y >= 0 not both zero, metric_phi_entropy(x, y) lies in [0, 1]; it
\* is 0 when exactly one argument is 0, and 1 when x = y > 0.
C2_PhiRange ==
    (PhiCalled /\ RLeq(RZero, phi_x) /\ RLeq(RZero, phi_y) /\ <<phi_x, phi_y>> # <<RZero, RZero>>)
        => /\ PhiGeqZero(phi_out) /\ PhiLeqOne(phi_out)
           /\ ((phi_x = RZero) # (phi_y = RZero)) => phi_out = RZero
           /\ (phi_x = phi_y) => PhiIsOne(phi_out)

C2_Witness ==
    PhiCalled /\ phi_x = phi_y /\ phi_x = RInt(3) /\ PhiIsOne(phi_out)

\* C3: a negative argument gives NaN, also when the other argument is 0.
C3_NegativeIsNaN ==
    (PhiCalled /\ (RLess(phi_x, RZero) \/ RLess(phi_y, RZero))) => IsNaN(phi_out)

C3_Witness ==
    PhiCalled /\ RLess(phi_x, RZero) /\ phi_y = RZero /\ IsNaN(phi_out)


(***************************************************************************)
(* SpecKde: calculate_kde applied to bounded point sets and weights.       *)
(***************************************************************************)
MaxAreaExp == 2
FloorAreas == {0} \cup {Pow(3, k) : k \in 0..MaxAreaExp}

KdeSpan == 2
KdeMaxBuildings == 2
KdeMaxPois == 1
KdeColumns == {CellSize * i : i \in 0..(KdeSpan - 1)}
KdeSquare(x) == Rect(x, x + CellSize, 0, CellSize)
KdeBuildings == {[geometry |-> KdeSquare(x), area |-> a] : x \in KdeColumns, a \in FloorAreas}
KdePois == {[geometry |-> PointGeom(x + CellSize \div 2, CellSize \div 2)] : x \in KdeColumns}

KdeInit ==
    /\ PhiIdle /\ FeatIdle /\ BlockIdle /\ MainIdle /\ UnitIdle
    /\ kde_out = NotRun
    /\ \E k \in 1..KdeSpan, built \in SeqsUpTo(KdeBuildings, KdeMaxBuildings),
          pois \in {None} \cup {Some(q) : q \in SeqsUpTo(KdePois, KdeMaxPois)},
          weighted \in BOOLEAN, log_weight \in BOOLEAN :
            kde_in = [points |-> [i \in 1..k |-> Centroid(KdeSquare(CellSize * (i - 1)))],
                      df_osm_built |-> [i \in 1..Len(built) |-> [geometry |-> built[i].geometry]],
                      df_osm_pois |-> pois,
                      X_weights |-> IF weighted THEN Some([i \in 1..Len(built) |-> built[i].area])
                                    ELSE None,
                      log_weight |-> log_weight]

CallKde ==
    /\ kde_out = NotRun
    /\ kde_out' = calculate_kde(kde_in.points, kde_in.df_osm_built, kde_in.df_osm_pois,
                                kde_in.X_weights, PoisWeightDefault, kde_in.log_weight)
    /\ UNCHANGED <<kde_in, phi_vars, feat_vars, block_vars, main_vars, unit_vars>>

KdeNext == CallKde

SpecKde == KdeInit /\ [][KdeNext]_vars

KdeCalled == kde_out # NotRun
KdePointSetSize ==
    Len(kde_in.df_osm_built) + (IF IsNone(kde_in.df_osm_pois) THEN 0 ELSE Len(Get(kde_in.df_osm_pois)))
KdeSurfaceNormalised(surface) ==
    /\ \A c \in 1..Len(surface) : IsFinite(surface[c]) /\ RLeq(RZero, surface[c])
    /\ \E c \in 1..Len(surface) : surface[c] = ROne
    /\ \A c \in 1..Len(surface) : RLeq(surface[c], ROne)

\* C4 (as claimed): for a non-empty point set calculate_kde does not fault and
\* returns a surface whose maximum is exactly 1 and whose values are all >= 0,
\* unweighted and weighted, for every weight vector.
C4_SurfaceNormalised ==
    (KdeCalled /\ KdePointSetSize > 0)
        => (Returned(kde_out) /\ KdeSurfaceNormalised(kde_out.value))

\* the unweighted and the positively weighted surfaces are normalised
C4_Unweighted ==
    (KdeCalled /\ KdePointSetSize > 0 /\ IsNone(kde_in.X_weights))
        => (Returned(kde_out) /\ KdeSurfaceNormalised(kde_out.value))

(***************************************************************************)
(* SpecFeatures: one computing call of compute_full_urban_features on a    *)
(* bounded grid, with no cached file.  The grid is a part of a lattice of  *)
(* FeatSpan x FeatSpan cells whose south-west corner is at one of          *)
(* FeatOrigins; buildings and POIs are placed relative to that corner.     *)
(***************************************************************************)
FeatSpan == 2
FeatMaxBuildings == 2
FeatMaxPois == 1
FeatOrigins == {<<0, 0>>, <<-200, 0>>, <<400, 200>>}

CityRef == "city"

LatticeCell(o, i, j) ==
    Rect(o[1] + CellSize * i, o[1] + CellSize * (i + 1), o[2] + CellSize * j, o[2] + CellSize * (j + 1))
LatticeCells(o) == [k \in 1..(FeatSpan * FeatSpan) |->
                      LatticeCell(o, (k - 1) % FeatSpan, (k - 1) \div FeatSpan)]

\* the subsequences of s
RECURSIVE SubSeqs(_)
SubSeqs(s) ==
    IF s = <<>> THEN {<<>>}
    ELSE LET rest == SubSeqs(Tail(s)) IN rest \cup {<<Head(s)>> \o t : t \in rest}

Relabel(rows) == [i \in 1..Len(rows) |-> rows[i] @@ [index |-> i - 1]]

GpwGrids(o) ==
    {[i \in 1..Len(cells) |-> [index |-> i - 1, idx |-> i, geometry |-> cells[i]]] :
        cells \in SubSeqs(LatticeCells(o)) \ {<<>>}}

Building(o, x0, x1, y0, y1, class, m2, levels) ==
    [geometry |-> Rect(o[1] + x0, o[1] + x1, o[2] + y0, o[2] + y1),
     classification |-> class,
     landuses_m2 |-> [residential |-> IF class = "activity" THEN 0 ELSE m2,
                      activity |-> IF class = "residential" THEN 0 ELSE m2,
                      shop |-> IF class = "residential" THEN 0 ELSE m2],
     building_levels |-> levels,
     activity_category |-> IF class = "residential" THEN None ELSE Some(<<"shop">>),
     containing_poi |-> None]

\* a house in the first cell, a mixed block across the first two cells, a
\* shop in the second cell, a mixed block across four cells, a footprint of
\* no area, a house in the first cell whose wall is on the boundary with the
\* second
FeatBuildingPool(o) ==
    <<Building(o, 50, 150, 50, 150, "residential", 3, 1),
      Building(o, 150, 250, 50, 150, "mixed", 3, 2),
      Building(o, 250, 350, 50, 150, "activity", 9, 1),
      Building(o, 150, 250, 150, 250, "mixed", 1, 3),
      Building(o, 100, 100, 100, 100, "residential", 3, 1),
      Building(o, 100, 200, 50, 150, "residential", 9, 2)>>

Poi(o, x, y, class, id) ==
    [index |-> id, osm_id |-> id, geometry |-> PointGeom(o[1] + x, o[2] + y),
     classification |-> class, activity_category |-> Some(<<"shop">>)]

\* a shop in the first cell, a home in the second, a mixed POI on the
\* boundary of the two
FeatPoiPool(o) ==
    <<Poi(o, 100, 100, "activity", 7), Poi(o, 300, 100, "residential", 8),
      Poi(o, 200, 100, "mixed", 9)>>

FeatDispersions == {<<RInt(1)>>, <<RInt(20), NaN>>}
\* kwargs["max_dispersion"]: the default and 0
FeatCaps == {MaxDispersionDefault, 0}

FeatInit ==
    /\ PhiIdle /\ KdeIdle /\ BlockIdle /\ MainIdle /\ UnitIdle
    /\ feat_records = <<>>
    /\ feat_out = NotRun
    /\ \E o \in FeatOrigins :
       \E grid \in GpwGrids(o),
          built \in {b \in SubSeqs(FeatBuildingPool(o)) : Len(b) <= FeatMaxBuildings},
          pois \in {q \in SubSeqs(FeatPoiPool(o)) : Len(q) <= FeatMaxPois},
          dispersion_values \in FeatDispersions, max_dispersion \in FeatCaps :
            feat_in = [pop_grid |-> grid,
                       df_osm_built |-> [rows |-> Relabel(built), geom_building |-> None],
                       df_osm_pois |-> pois,
                       data_source |-> "gpw",
                       dispersion_values |-> dispersion_values,
                       max_dispersion |-> max_dispersion]

FeatCall ==
    compute_full_urban_features(EmptyDisk, CityRef, Some(feat_in.df_osm_built),
                                Some(feat_in.df_osm_pois), Some(feat_in.pop_grid),
                                Some(feat_in.data_source), DefaultLandusemixArgs,
                                feat_in.dispersion_values, Some(feat_in.max_dispersion))

\* the overlap records of the call, when it gets as far as computing them
FeatOverlapRecords ==
    IF RatioFaults(FillNullBuildings(
            SJoinCellsBuildings(feat_in.pop_grid, feat_in.df_osm_built.rows,
                                Get(ConserveGeometries(feat_in.df_osm_built).geom_building))))
    THEN <<>>
    ELSE OverlapRecords(feat_in.pop_grid, feat_in.df_osm_built.rows,
                        Get(ConserveGeometries(feat_in.df_osm_built).geom_building))

RunFeatures ==
    /\ feat_out = NotRun
    /\ feat_out' = FeatCall.outcome
    /\ feat_records' = FeatOverlapRecords
    /\ UNCHANGED <<feat_in, phi_vars, kde_vars, block_vars, main_vars, unit_vars>>

FeatNext == RunFeatures

SpecFeatures == FeatInit /\ [][FeatNext]_vars

FeatCalled == feat_out # NotRun

FeatBuilt == feat_in.df_osm_built.rows
FeatRecordsOf(b) == Filter(LAMBDA r : r.index_right = b, feat_records)

\* the footprint of a building is covered by the cells: every square of side
\* CoverUnit of it lies in a cell
CoverUnit == CellSize \div 4
Covered(g, grid) ==
    \A i \in 0..(((g.x1 - g.x0) \div CoverUnit) - 1), j \in 0..(((g.y1 - g.y0) \div CoverUnit) - 1) :
        \E c \in 1..Len(grid) :
            /\ grid[c].geometry.x0 <= g.x0 + CoverUnit * i
            /\ g.x0 + CoverUnit * (i + 1) <= grid[c].geometry.x1
            /\ grid[c].geometry.y0 <= g.y0 + CoverUnit * j
            /\ g.y0 + CoverUnit * (j + 1) <= grid[c].geometry.y1
DisjointCells(grid) ==
    \A c, d \in 1..Len(grid) :
        c # d => IntersectionArea(grid[c].geometry, grid[d].geometry) = RZero

\* C1: for every building whose footprint is covered by cells with pairwise
\* disjoint intersections, the building_ratio values of its overlap records
\* sum to 1, and so do its contributions to num_buildings.
C1_RatiosSumToOne ==
    (FeatCalled /\ feat_records # <<>> /\ DisjointCells(feat_in.pop_grid))
        => \A b \in 1..Len(FeatBuilt) :
              (Area(FeatBuilt[b].geometry) # RZero /\ Covered(FeatBuilt[b].geometry, feat_in.pop_grid))
                  => /\ RSum([k \in 1..Len(FeatRecordsOf(b)) |->
                                FeatRecordsOf(b)[k].features.building_ratio]) = ROne
                     /\ RSum([k \in 1..Len(FeatRecordsOf(b)) |->
                                FeatRecordsOf(b)[k].features.num_buildings]) = ROne

\* a building across four cells of the grid, a quarter of it in each
C1_Witness ==
    /\ FeatCalled
    /\ \E b \in 1..Len(FeatBuilt) :
          /\ Covered(FeatBuilt[b].geometry, feat_in.pop_grid)
          /\ Len(FeatRecordsOf(b)) = 4
          /\ \A k \in 1..4 : FeatRecordsOf(b)[k].features.building_ratio = <<1, 4>>

FeatCellIsEmpty(g) == \A b \in 1..Len(FeatBuilt) : ~Intersects(g, FeatBuilt[b].geometry)
FeatureColumns == Range(SummedColumns) \ {"built_up_m2"}

\* C7 (as claimed): every cell that intersects no building ends with 0 in
\* every summed feature column and built_up_relation = 0, wherever the cell
\* lies in the plane.
C7_EmptyCellAllZero ==
    (FeatCalled /\ Returned(feat_out))
        => \A i \in 1..Len(feat_out.value) :
              FeatCellIsEmpty(feat_out.value[i].geometry)
                  => /\ \A c \in FeatureColumns : feat_out.value[i][c] = RZero
                     /\ feat_out.value[i].built_up_relation = RZero

\* the cells that do not hold the origin of the plane
C7_AwayFromOrigin ==
    (FeatCalled /\ Returned(feat_out))
        => \A i \in 1..Len(feat_out.value) :
              (/\ FeatCellIsEmpty(feat_out.value[i].geometry)
               /\ IntersectionArea(min_polygon, feat_out.value[i].geometry) = RZero)
                  => /\ \A c \in FeatureColumns : feat_out.value[i][c] = RZero
                     /\ feat_out.value[i].built_up_relation = RZero

(***************************************************************************)
(* SpecBlocks: get_aggregated_squares applied to bounded cell tables.  A   *)
(* cell lies on the lattice of 200 m squares, in one of the first          *)
(* BlockSpan rows and in one of the first BlockSpan columns or in the      *)
(* column ten cells east of the first; it carries the identifier of its    *)
(* south-west corner, or "CRS" when the fill added it.                     *)
(***************************************************************************)
BlockSpan == 2
BlockMaxCells == 3
BlockNorths == {CellSize * j : j \in 0..(BlockSpan - 1)}
BlockEasts == {CellSize * i : i \in 0..(BlockSpan - 1)} \cup {10 * CellSize}

\* the cells in row-major order of their corners
BlockPool ==
    LET corners == SortedSeq({n * 100000 + e_ : n \in BlockNorths, e_ \in BlockEasts})
    IN  [k \in 1..Len(corners) |-> <<corners[k] \div 100000, corners[k] % 100000>>]

InseeCell(corner, named, pop) ==
    [idINSPIRE |-> IF named THEN InspireId(corner[1], corner[2]) ELSE CrsId,
     pop_count |-> IF named THEN RInt(pop) ELSE RZero,
     geometry |-> Rect(corner[2], corner[2] + CellSize, corner[1], corner[1] + CellSize)]

BlockTables ==
    {Relabel([i \in 1..Len(corners) |-> InseeCell(corners[i], named[i], i)]) :
        <<corners, named>> \in
            {<<c, n>> \in SubSeqs(BlockPool) \X SeqsUpTo(BOOLEAN, BlockMaxCells) :
                Len(c) = Len(n) /\ Len(c) >= 1}}

BlockInit ==
    /\ PhiIdle /\ KdeIdle /\ FeatIdle /\ MainIdle /\ UnitIdle
    /\ block_out = NotRun
    /\ \E df_insee \in BlockTables, conserve \in BOOLEAN :
          block_in = [df_insee |-> df_insee,
                      step |-> IF conserve THEN CellSize ELSE 5 * CellSize,
                      conserve_squares_info |-> conserve]

CallBlocks ==
    /\ block_out = NotRun
    /\ block_out' = get_aggregated_squares(block_in.df_insee, block_in.step,
                                           block_in.conserve_squares_info)
    /\ UNCHANGED <<block_in, phi_vars, kde_vars, feat_vars, main_vars, unit_vars>>

BlockNext == CallBlocks

SpecBlocks == BlockInit /\ [][BlockNext]_vars

BlocksCalled == block_out # NotRun

\* the index labels of the cells whose identifier coordinates are <<north, east>>
CellsAt(df_insee, north, east) ==
    Filter(LAMBDA r : NorthingEastingOrNaN(r.idINSPIRE) = Return(Some(<<north, east>>)), df_insee)

\* the centre of a produced block: the mesh point it was made for
BlockCentres ==
    LET known == Filter(LAMBDA r : NorthingEastingOrNaN(r.idINSPIRE).value # None, block_in.df_insee)
        north == [i \in 1..Len(known) |-> NorthingEasting(known[i].idINSPIRE).value[1]]
        east == [i \in 1..Len(known) |-> NorthingEasting(known[i].idINSPIRE).value[2]]
        points == MeshPoints(Arange(SeqMin(east) + 100, SeqMaxInt(east) + 100, block_in.step),
                             Arange(SeqMin(north) + 100, SeqMaxInt(north) + 100, block_in.step))
    IN  Filter(LAMBDA c : BlockSquares(block_in.df_insee, c, 400) # <<>>, points)

\* C5 (as claimed): in conservative mode every produced block has exactly 25
\* entries, north offsets outside and east offsets inside, each the index of
\* the cell whose identifier coordinates are that position, or null when
\* there is none, for every set of cell identifiers.
C5_ExactlyTwentyFiveSlots ==
    (BlocksCalled /\ block_in.conserve_squares_info /\ Returned(block_out))
        => \A b \in 1..Len(block_out.value) :
              /\ Len(block_out.value[b].indices) = 25
              /\ \A k \in 1..25 :
                    LET north == BlockCentres[b][2] + BlockOffsets[((k - 1) \div 5) + 1] - 100
                        east == BlockCentres[b][1] + BlockOffsets[((k - 1) % 5) + 1] - 100
                        here == CellsAt(block_in.df_insee, north, east)
                    IN  block_out.value[b].indices[k] =
                            (IF here = <<>> THEN None ELSE Some(here[1].index))

(***************************************************************************)
(* Spec: sequences of calls of compute_full_urban_features and             *)
(* get_training_testing_data for one city, by a caller who holds one grid, *)
(* one building table and one POI table, passes them or leaves them out,   *)
(* hands the feature table he got to get_training_testing_data, and may    *)
(* remove a stored file between two calls.                                 *)
(***************************************************************************)
MaxCalls == 3

MainOrigin == <<400, 200>>
MainGrid(corners) ==
    [i \in 1..Len(corners) |->
        InseeCell(corners[i], TRUE, i) @@ [index |-> i - 1, idx |-> i]]

\* two cells corner to corner; two cells with a gap that the fill closes;
\* a grid with no activity in reach; a building of no area
MainWorlds ==
    {[pop_grid |-> MainGrid(<<<<200, 400>>, <<400, 600>>>>),
      built |-> Relabel(SubSeq(FeatBuildingPool(MainOrigin), 1, 2)),
      pois |-> FeatPoiPool(MainOrigin),
      dispersion_values |-> <<RInt(20), RInt(5)>>],
     [pop_grid |-> MainGrid(<<<<200, 400>>, <<400, 800>>>>),
      built |-> Relabel(SubSeq(FeatBuildingPool(MainOrigin), 2, 3)),
      pois |-> FeatPoiPool(MainOrigin),
      dispersion_values |-> <<RInt(1), NaN>>],
     [pop_grid |-> MainGrid(<<<<200, 400>>, <<400, 600>>>>),
      built |-> Relabel(SubSeq(FeatBuildingPool(MainOrigin), 1, 1)),
      pois |-> SubSeq(FeatPoiPool(MainOrigin), 2, 2),
      dispersion_values |-> <<RInt(1)>>],
     [pop_grid |-> MainGrid(<<<<200, 400>>, <<400, 600>>>>),
      built |-> Relabel(SubSeq(FeatBuildingPool(MainOrigin), 4, 5)),
      pois |-> FeatPoiPool(MainOrigin),
      dispersion_values |-> <<RInt(1)>>]}

DataSources == {None, Some("insee"), Some("gpw"), Some("osm")}
\* the inputs of a call: all three, all three with another POI table, or one
\* of them left out
InputChoices == {"all", "other_pois", "no_built", "no_pois", "no_grid"}

BuiltArg(inputs) == IF inputs = "no_built" THEN None ELSE Some(caller_built)
PoisArg(inputs) ==
    IF inputs = "no_pois" THEN None
    ELSE IF inputs = "other_pois" THEN Some(<<>>)
    ELSE Some(world.pois)
GridArg(inputs) == IF inputs = "no_grid" THEN None ELSE Some(world.pop_grid)
InputsComplete(inputs) == inputs \in {"all", "other_pois"}

MainInit ==
    /\ PhiIdle /\ KdeIdle /\ FeatIdle /\ BlockIdle /\ UnitIdle
    /\ world \in MainWorlds
    /\ caller_built = [rows |-> world.built, geom_building |-> None]
    /\ caller_features = None
    /\ storage = EmptyDisk
    /\ last_call = <<>>
    /\ calls = 0
    /\ written = <<>>
    /\ computed = <<>>

\* the caller calls compute_full_urban_features
CallFeatures(data_source, inputs) ==
    /\ calls < MaxCalls
    /\ \E r \in {compute_full_urban_features(storage, CityRef, BuiltArg(inputs), PoisArg(inputs),
                                             GridArg(inputs), data_source, DefaultLandusemixArgs,
                                             world.dispersion_values, Some(MaxDispersionDefault))} :
        LET cached == ~IsNone(data_source)
                        /\ FileExists(storage, get_population_urban_features_filename(
                                                    CityRef, Get(data_source)))
            key == <<data_source, inputs>>
        IN  /\ storage' = r.disk
            /\ caller_built' = IF IsNone(r.df_osm_built) THEN caller_built ELSE Get(r.df_osm_built)
            /\ caller_features' = IF Returned(r.outcome) THEN Some(r.outcome.value)
                                  ELSE caller_features
            /\ last_call' = [fn |-> "compute_full_urban_features", data_source |-> data_source,
                             inputs |-> inputs, cached |-> cached, outcome |-> r.outcome,
                             joined |-> r.joined]
            /\ written' = IF r.joined /\ Returned(r.outcome)
                          THEN (get_population_urban_features_filename(CityRef, Get(data_source))
                                    :> r.outcome.value) @@ written
                          ELSE written
            /\ computed' = IF r.joined
                            THEN (key :> [outcome |-> r.outcome,
                                          runs |-> IF key \in DOMAIN computed
                                                   THEN computed[key].runs + 1 ELSE 1])
                                 @@ computed
                            ELSE computed
    /\ calls' = calls + 1
    /\ UNCHANGED <<world, phi_vars, kde_vars, feat_vars, block_vars, unit_vars>>

\* the caller calls get_training_testing_data, with the feature table he
\* holds or with none
CallTraining(with_features) ==
    /\ calls < MaxCalls
    /\ \E r \in {get_training_testing_data(storage, CityRef,
                                           IF with_features THEN caller_features ELSE None)} :
        LET filename == get_population_training_validating_filename(CityRef)
            cached == FileExists(storage, filename)
        IN  /\ storage' = r.disk
            /\ caller_features' = IF with_features THEN r.pop_features ELSE caller_features
            /\ last_call' = [fn |-> "get_training_testing_data", data_source |-> None,
                             inputs |-> IF with_features /\ ~IsNone(caller_features)
                                        THEN "all" ELSE "none",
                             cached |-> cached, outcome |-> r.outcome, joined |-> FALSE]
            /\ written' = IF ~cached /\ Returned(r.outcome)
                          THEN (filename :> r.outcome.value) @@ written
                          ELSE written
    /\ calls' = calls + 1
    /\ UNCHANGED <<world, caller_built, computed, phi_vars, kde_vars, feat_vars, block_vars, unit_vars>>

\* a stored file is removed
RemoveCache(filename) ==
    /\ FileExists(storage, filename)
    /\ storage' = [storage EXCEPT
                     !.files = [f \in (DOMAIN storage.files) \ {filename} |-> storage.files[f]]]
    /\ written' = [f \in (DOMAIN written) \ {filename} |-> written[f]]
    /\ UNCHANGED <<world, caller_built, caller_features, last_call, calls, computed,
                   phi_vars, kde_vars, feat_vars, block_vars, unit_vars>>

Next ==
    \/ \E data_source \in DataSources, inputs \in InputChoices : CallFeatures(data_source, inputs)
    \/ \E with_features \in BOOLEAN : CallTraining(with_features)
    \/ \E filename \in DOMAIN storage.files : RemoveCache(filename)

Spec == MainInit /\ [][Next]_vars

FeaturesCalled == calls' = calls + 1 /\ last_call'.fn = "compute_full_urban_features"
TrainingCalled == calls' = calls + 1 /\ last_call'.fn = "get_training_testing_data"
CallKey == <<last_call'.data_source, last_call'.inputs>>
FeaturesFile(data_source) == get_population_urban_features_filename(CityRef, Get(data_source))
TrainingFile == get_population_training_validating_filename(CityRef)

\* C6: a run of compute_full_urban_features that computes gives the outcome
\* that the earlier computing run on the same input objects and the same
\* data_source gave (the stored file having been removed in between).
C6_SecondRunIdentical ==
    [][(FeaturesCalled /\ last_call'.joined /\ CallKey \in DOMAIN computed)
        => last_call'.outcome = computed[CallKey].outcome]_vars

\* a second computing run on the same inputs has returned its table
C6_Witness ==
    /\ last_call # <<>>
    /\ last_call.fn = "compute_full_urban_features" /\ last_call.joined
    /\ Returned(last_call.outcome)
    /\ <<last_call.data_source, last_call.inputs>> \in DOMAIN computed
    /\ computed[<<last_call.data_source, last_call.inputs>>].runs = 2
    /\ ~IsNone(caller_built.geom_building)

LastIsFeatures == last_call # <<>> /\ last_call.fn = "compute_full_urban_features"
UnknownSource(data_source) == data_source \notin {Some("insee"), Some("gpw")}

C9_MissingInputFailsEarly ==
    [][FeaturesCalled =>
        /\ (/\ ~IsNone(last_call'.data_source)
            /\ ~FileExists(storage, FeaturesFile(last_call'.data_source))
            /\ ~InputsComplete(last_call'.inputs))
                => /\ ~Returned(last_call'.outcome)
                   /\ ~last_call'.joined
                   /\ storage'.files = storage.files
                   /\ caller_built' = caller_built
                   /\ computed' = computed
        /\ (/\ last_call'.data_source \in {Some("insee"), Some("gpw")}
            /\ ~FileExists(storage, FeaturesFile(last_call'.data_source))
            /\ InputsComplete(last_call'.inputs))
                => last_call'.joined
       ]_vars

\* a call without the buildings has failed and left the storage empty of files
C9_Witness ==
    /\ LastIsFeatures
    /\ last_call.data_source = Some("insee") /\ last_call.inputs = "no_built"
    /\ ~last_call.cached
    /\ last_call.outcome = Raise("AssertionError")
    /\ storage.files = <<>>
    /\ "insee" \in storage.folders

\* C10: a computing call that returns has stored its file; a call that finds
\* the file of its key returns what is stored, computes nothing, changes
\* neither the files nor the caller's tables, whatever inputs it is given;
\* the stored feature table is the returned one as the file format keeps it,
\* and the stored arrays come back as the Y, X, X_columns that the computing
\* call returned.
C10_CacheShortCircuit ==
    [][/\ (FeaturesCalled /\ ~IsNone(last_call'.data_source)
              /\ FileExists(storage, FeaturesFile(last_call'.data_source)))
            => /\ last_call'.outcome =
                    Return(storage.files[FeaturesFile(last_call'.data_source)])
               /\ last_call'.outcome =
                    Return(GeoJsonRoundTrip(written[FeaturesFile(last_call'.data_source)]))
               /\ ~last_call'.joined
               /\ storage'.files = storage.files
               /\ caller_built' = caller_built
               /\ computed' = computed
       /\ (FeaturesCalled /\ last_call'.joined /\ Returned(last_call'.outcome))
            => FileExists(storage', FeaturesFile(last_call'.data_source))
       /\ (TrainingCalled /\ FileExists(storage, TrainingFile))
            => /\ last_call'.outcome = Return(written[TrainingFile])
               /\ storage'.files = storage.files
               /\ caller_features' = caller_features
       /\ (TrainingCalled /\ ~FileExists(storage, TrainingFile) /\ Returned(last_call'.outcome))
            => FileExists(storage', TrainingFile)
      ]_vars

\* the arrays have come back from the file to a call that was given no table
C10_Witness ==
    /\ last_call # <<>>
    /\ last_call.fn = "get_training_testing_data"
    /\ last_call.cached /\ last_call.inputs = "none"
    /\ Returned(last_call.outcome)
    /\ last_call.outcome.value[1] # <<>>
    /\ last_call.outcome.value[3][1] = "m2_total_residential"

(***************************************************************************)
(* osm/utils.py: associate_structures                                      *)
(*                                                                         *)
(* A row of the encompassing table holds its index label, its geometry (a  *)
(* rectangle of positive area) and cols, the columns that calls of         *)
(* associate_structures have added: a function from the column's name to   *)
(* None (NaN) or Some(list of index labels).  A column that is not in the  *)
(* domain of cols is not in the table.                                     *)
(***************************************************************************)
\* shapely a.contains(b) for a rectangle a of positive area: b has no point
\* outside a, and the interior of b (the point itself, the open segment, the
\* open rectangle) meets the interior of a
GeomContains(a, b) ==
    /\ IF b.x0 = b.x1 THEN a.x0 < b.x0 /\ b.x0 < a.x1 ELSE a.x0 <= b.x0 /\ b.x1 <= a.x1
    /\ IF b.y0 = b.y1 THEN a.y0 < b.y0 /\ b.y0 < a.y1 ELSE a.y0 <= b.y0 /\ b.y1 <= a.y1

\* the predicate that the parameter operation names
Operation(operation, a, b) ==
    IF operation = "contains" THEN GeomContains(a, b) ELSE Intersects(a, b)

\* lines 238-243: gpd.sjoin(encompassing, structures, op=operation), an inner
\* join: one row <<label, index_cont>> for every pair that satisfies the
\* predicate and none for a geometry without a partner
AssocSJoin(rows, structures, operation) ==
    Concat(Map(LAMBDA e :
                 Map(LAMBDA c : <<e.index, c.index>>,
                     Filter(LAMBDA c : Operation(operation, e.geometry, c.geometry),
                            structures)),
               rows))

\* (mutant) the join keeps every encompassing row (how="left"): a row without
\* a partner gets an empty list
GroupIndices_every_row(sjoin, rows) ==
    [l \in {rows[i].index : i \in 1..Len(rows)} |->
        Map(LAMBDA pair : pair[2], Filter(LAMBDA pair : pair[1] = l, sjoin))]

\* lines 245-247: sjoin.groupby(sjoin.index)["index_cont"].apply(list), a
\* series from the labels that the join holds to the list of their partners
GroupIndices(sjoin, rows) ==
    [l \in {sjoin[i][1] : i \in 1..Len(sjoin)} |->
        Map(LAMBDA pair : pair[2], Filter(LAMBDA pair : pair[1] = l, sjoin))]

\* lines 249-251: df.loc[group_indices.index, column] = group_indices.values.
\* A column that is not there is made with NaN in every row; a row whose
\* label is not in the series keeps what it has.
AssignGroups(rows, column, group_indices) ==
    Map(LAMBDA e :
          [e EXCEPT !.cols =
              [c \in (DOMAIN e.cols) \cup {column} |->
                  IF c = column /\ e.index \in DOMAIN group_indices
                  THEN Some(group_indices[e.index])
                  ELSE IF c \in DOMAIN e.cols THEN e.cols[c]
                  ELSE None]],
        rows)

\* lines 211-254: the encompassing table after the call
associate_structures(df_osm_encompassing_structures, df_osm_structures, operation, column) ==
    AssignGroups(df_osm_encompassing_structures, column,
                 GroupIndices(AssocSJoin(df_osm_encompassing_structures, df_osm_structures,
                                         operation),
                              df_osm_encompassing_structures))

(***************************************************************************)
(* SpecAssoc: associate_structures called on one table of buildings with   *)
(* tables of building parts and POIs, more than once.                      *)
(***************************************************************************)
AssocMaxCalls == 2
AssocMaxStructures == 2

\* two buildings side by side
AssocBuildings ==
    <<[index |-> 0, geometry |-> Rect(0, 100, 0, 100), cols |-> <<>>],
      [index |-> 1, geometry |-> Rect(100, 200, 0, 100), cols |-> <<>>]>>

\* a part within the first building, a POI inside it, a POI on the wall the
\* buildings share, a POI away from both
AssocStructures ==
    <<[index |-> 4, geometry |-> Rect(20, 80, 20, 80)],
      [index |-> 7, geometry |-> PointGeom(50, 50)],
      [index |-> 8, geometry |-> PointGeom(100, 50)],
      [index |-> 9, geometry |-> PointGeom(300, 300)]>>

AssocInit ==
    /\ PhiIdle /\ KdeIdle /\ FeatIdle /\ BlockIdle /\ MainIdle
    /\ FillIdle /\ MixIdle /\ TrainIdle
    /\ assoc_frame \in SubSeqs(AssocBuildings) \ {<<>>}
    /\ assoc_last = <<>>

Associate(structures, operation, column) ==
    /\ (IF assoc_last = <<>> THEN 0 ELSE assoc_last.calls) < AssocMaxCalls
    /\ assoc_frame' = associate_structures(assoc_frame, structures, operation, column)
    /\ assoc_last' = [df_osm_structures |-> structures, operation |-> operation,
                      column |-> column, before |-> assoc_frame,
                      calls |-> IF assoc_last = <<>> THEN 1 ELSE assoc_last.calls + 1]
    /\ UNCHANGED <<phi_vars, kde_vars, feat_vars, block_vars, main_vars,
                   fill_vars, mix_vars, train_vars>>

AssocNext ==
    \E structures \in {t \in SubSeqs(AssocStructures) : Len(t) <= AssocMaxStructures},
       operation \in {"contains", "intersects"},
       column \in {"containing_parts", "containing_poi"} :
        Associate(structures, operation, column)

SpecAssoc == AssocInit /\ [][AssocNext]_vars

AssocCalled == assoc_last # <<>>

\* the labels of the structures that the predicate of the last call pairs
\* with the encompassing row e
AssocMatches(e) ==
    {c.index : c \in {d \in Range(assoc_last.df_osm_structures) :
                        Operation(assoc_last.operation, e.geometry, d.geometry)}}

\* the entry of row e in the column of the last call
AssocEntry(e) == e.cols[assoc_last.column]

\* the entry lists the matches, each once
AssocListsMatches(e) ==
    /\ ~IsNone(AssocEntry(e))
    /\ Range(Get(AssocEntry(e))) = AssocMatches(e)
    /\ Len(Get(AssocEntry(e))) = Cardinality(AssocMatches(e))

\* the row of the table before the last call that has the label of e
AssocBefore(e) == CHOOSE b \in Range(assoc_last.before) : b.index = e.index

FillSpan == 4
FillMaxCells == 2

\* the subsequences of s of at most n elements
RECURSIVE SubSeqsUpTo(_, _)
SubSeqsUpTo(s, n) ==
    IF s = <<>> \/ n = 0 THEN {<<>>}
    ELSE SubSeqsUpTo(Tail(s), n) \cup {<<Head(s)>> \o t : t \in SubSeqsUpTo(Tail(s), n - 1)}

\* the south-west corners <<north, east>> of the lattice, row by row
FillPool ==
    [k \in 1..(FillSpan * FillSpan) |->
        <<CellSize * ((k - 1) \div FillSpan), CellSize * ((k - 1) % FillSpan)>>]

\* a cell carries the identifier of its corner, or "CRS"
FillTables ==
    {Relabel([i \in 1..Len(corners) |-> InseeCell(corners[i], named[i], i)]) :
        <<corners, named>> \in
            {<<c, n>> \in SubSeqsUpTo(FillPool, FillMaxCells) \X SeqsUpTo(BOOLEAN, FillMaxCells) :
                Len(c) = Len(n) /\ Len(c) >= 1}}

FillInit ==
    /\ PhiIdle /\ KdeIdle /\ FeatIdle /\ BlockIdle /\ MainIdle
    /\ AssocIdle /\ MixIdle /\ TrainIdle
    /\ fill_in \in FillTables
    /\ fill_out = NotRun

CallFill ==
    /\ fill_out = NotRun
    /\ fill_out' = get_population_df_filled_empty_squares(fill_in)
    /\ UNCHANGED <<fill_in, phi_vars, kde_vars, feat_vars, block_vars, main_vars,
                   assoc_vars, mix_vars, train_vars>>

FillNext == CallFill

SpecFill == FillInit /\ [][FillNext]_vars

FillReturned == fill_out # NotRun /\ Returned(fill_out)

\* the cells of the output that the function made
FillAdded == Filter(LAMBDA r : r.idINSPIRE = NaNId, fill_out.value)

\* the corners of the observed cells and the lattice positions of their
\* bounding range, bounds included
FillObservedNorths == {r.geometry.y0 : r \in Range(fill_in)}
FillObservedEasts == {r.geometry.x0 : r \in Range(fill_in)}
FillLattice ==
    {<<n, e_>> \in
        {CellSize * j : j \in 0..(FillSpan - 1)} \X {CellSize * i : i \in 0..(FillSpan - 1)} :
            /\ \E a \in FillObservedNorths : a <= n
            /\ \E a \in FillObservedNorths : n <= a
            /\ \E a \in FillObservedEasts : a <= e_
            /\ \E a \in FillObservedEasts : e_ <= a}
SquareAt(pos) == Rect(pos[2], pos[2] + CellSize, pos[1], pos[1] + CellSize)

\* g lies within the convex hull of the observed cells: no side of the hull
\* has a corner of g on its outer side
WithinObservedHull(g) ==
    \A c \in Corners(g) :
        ~\E p \in UNION {Corners(r.geometry) : r \in Range(fill_in)},
            q \in UNION {Corners(r.geometry) : r \in Range(fill_in)} :
                /\ p # q
                /\ \A r \in Range(fill_in) : \A k \in Corners(r.geometry) : Cross(p, q, k) >= 0
                /\ Cross(p, q, c) < 0

\* C12 (as stated): after get_population_df_filled_empty_squares every
\* lattice position between the least and the greatest observed northing
\* and easting, bounds included, that no observed cell covers and whose
\* square lies within the convex hull of the observed cells, is covered by
\* exactly one added square cell of population 0.
C12_LatticeFilled ==
    FillReturned =>
        \A pos \in FillLattice :
            ((\A r \in Range(fill_in) : r.geometry # SquareAt(pos)) /\ WithinObservedHull(SquareAt(pos)))
                => /\ Len(Filter(LAMBDA r : r.geometry = SquareAt(pos), FillAdded)) = 1
                   /\ \A r \in Range(FillAdded) : r.geometry = SquareAt(pos) => r.pop_count = RZero

\* the content of a cell: its identifier, population and footprint
CellContent(r) == <<r.idINSPIRE, r.pop_count, r.geometry>>

\* C13: get_population_df_filled_empty_squares keeps every observed cell as
\* it was, every cell it adds has population 0, no added cell that is apart
\* from the convex hull of the observed cells remains, and a table of one
\* cell comes back as that cell alone.
C13_ObservedKeptAddedInHull ==
    FillReturned =>
        /\ Len(fill_out.value) = Len(fill_in) + Len(FillAdded)
        /\ \A i \in 1..Len(fill_in) : CellContent(fill_out.value[i]) = CellContent(fill_in[i])
        /\ \A r \in Range(FillAdded) :
              /\ r.pop_count = RZero
              /\ \E c \in Corners(r.geometry) : WithinObservedHull(PointGeom(c[1], c[2]))
        /\ (Len(fill_in) = 1 => FillAdded = <<>>)

\* a call has added a cell and has dropped a vacant square of the mesh that
\* is apart from the hull
C13_Witness ==
    /\ FillReturned
    /\ FillAdded # <<>>
    /\ Len(FillAdded) <
            Len(EmptySquares(fill_in, FillMesh(Map(LAMBDA r : r.geometry.y0, fill_in),
                                               Map(LAMBDA r : r.geometry.x0, fill_in))))

(***************************************************************************)
(* SpecFeatures: buildings of no area                                      *)
(***************************************************************************)
\* C14 (as stated): a real building whose footprint has no area and that
\* intersects a cell of the grid never makes the building_ratio computation
\* of compute_full_urban_features fail with a division by zero: the call
\* returns.
C14_ZeroAreaNoFault ==
    (FeatCalled /\ \E b \in 1..Len(FeatBuilt) :
                        /\ Area(FeatBuilt[b].geometry) = RZero
                        /\ \E i \in 1..Len(feat_in.pop_grid) :
                              Intersects(feat_in.pop_grid[i].geometry, FeatBuilt[b].geometry))
        => Returned(feat_out)

(***************************************************************************)
(* SpecKde: empty point sets                                               *)
(***************************************************************************)
\* C15 (as stated): when the point set of a density surface is empty,
\* calculate_kde does not raise: it returns a surface that is null at every
\* evaluated position.
C15_EmptyPointSetNullSurface ==
    (KdeCalled /\ KdePointSetSize = 0)
        => /\ Returned(kde_out)
           /\ Len(kde_out.value) = Len(kde_in.points)
           /\ \A c \in 1..Len(kde_out.value) : IsNaN(kde_out.value[c])

(***************************************************************************)
(* SpecFeatures: the sums of a cell                                        *)
(***************************************************************************)
FeatHits(g) == Filter(LAMBDA b : Intersects(g, b.geometry), FeatBuilt)
FeatShare(b, g) == RDiv(IntersectionArea(b.geometry, g), Area(b.geometry))
\* the sum of share x V(building) over the buildings that intersect g
ShareSum(g, V(_)) == RSum(Map(LAMBDA b : RMul(FeatShare(b, g), V(b)), FeatHits(g)))
OfClass(b, class, v) == IF b.classification = class THEN v ELSE RZero

CellSumsAsClaimed(row) ==
    /\ row.m2_total_residential = ShareSum(row.geometry, LAMBDA b : RInt(b.landuses_m2.residential))
    /\ row.m2_total_activity = ShareSum(row.geometry, LAMBDA b : RInt(b.landuses_m2.activity))
    /\ row.num_levels = ShareSum(row.geometry, LAMBDA b : RInt(b.building_levels))
    /\ row.num_buildings = ShareSum(row.geometry, LAMBDA b : ROne)
    /\ \A class \in {"residential", "activity", "mixed"} :
          /\ row["m2_footprint_" \o class]
                = ShareSum(row.geometry, LAMBDA b : OfClass(b, class, Area(b.geometry)))
          /\ row["num_built_" \o class] = ShareSum(row.geometry, LAMBDA b : OfClass(b, class, ROne))

\* C16 (as stated): for every cell of the enriched output,
\* m2_total_residential, m2_total_activity, num_levels and num_buildings are
\* the sums, over the buildings that intersect the cell, of building_ratio
\* times the building's residential floor area, activity floor area, levels
\* and 1; m2_footprint_<class> and num_built_<class> are the sums of
\* building_ratio times the area and of building_ratio over the
\* intersecting buildings of that class.
C16_CellSums ==
    (FeatCalled /\ Returned(feat_out))
        => \A i \in 1..Len(feat_out.value) : CellSumsAsClaimed(feat_out.value[i])

\* the same for the cells that have a building, or that hold no part of the
\* placeholder footprint
C16_BuiltOrAwayFromOrigin ==
    (FeatCalled /\ Returned(feat_out))
        => \A i \in 1..Len(feat_out.value) :
              (FeatHits(feat_out.value[i].geometry) # <<>>
                 \/ IntersectionArea(min_polygon, feat_out.value[i].geometry) = RZero)
                  => CellSumsAsClaimed(feat_out.value[i])

(***************************************************************************)
(* SpecFeatures: the overlap records                                       *)
(***************************************************************************)
FeatRealRecords == Filter(LAMBDA r : r.index_right # 0, feat_records)
FeatRecordsAt(cell, b) ==
    Filter(LAMBDA r : r.index_right = b /\ r.cell.geometry = cell.geometry, feat_records)

\* C17 (as stated): every overlap record of a cell and a real building has
\* building_ratio in (0, 1], a building that only touches the boundary of a
\* cell having no record for that cell.
C17_RatioPositive ==
    (FeatCalled /\ feat_records # <<>>)
        => \A k \in 1..Len(FeatRealRecords) :
              /\ RLess(RZero, FeatRealRecords[k].features.building_ratio)
              /\ RLeq(FeatRealRecords[k].features.building_ratio, ROne)

\* C17 (amended): there is one overlap record for every cell and building
\* whose closed geometries have a point in common, and none for the others;
\* its building_ratio is in [0, 1], and it is 0 exactly when the two share
\* no area.
C17_RatioOfIntersecting ==
    (FeatCalled /\ feat_records # <<>>)
        => \A i \in 1..Len(feat_in.pop_grid), b \in 1..Len(FeatBuilt) :
              /\ Len(FeatRecordsAt(feat_in.pop_grid[i], b))
                    = (IF Intersects(feat_in.pop_grid[i].geometry, FeatBuilt[b].geometry) THEN 1 ELSE 0)
              /\ \A r \in Range(FeatRecordsAt(feat_in.pop_grid[i], b)) :
                    /\ RLeq(RZero, r.features.building_ratio)
                    /\ RLeq(r.features.building_ratio, ROne)
                    /\ (r.features.building_ratio = RZero)
                          <=> (IntersectionArea(feat_in.pop_grid[i].geometry, FeatBuilt[b].geometry) = RZero)

\* a building in one cell has a record of ratio 0 with the cell it touches
C17_Witness ==
    /\ FeatCalled
    /\ \E k \in 1..Len(FeatRealRecords) :
          /\ FeatRealRecords[k].features.building_ratio = RZero
          /\ \E j \in 1..Len(FeatRealRecords) :
                /\ FeatRealRecords[j].index_right = FeatRealRecords[k].index_right
                /\ FeatRealRecords[j].features.building_ratio = ROne

(***************************************************************************)
(* SpecMix: compute_grid_landusemix applied to buildings that list the     *)
(* POIs they contain.  The state records the point sets handed to          *)
(* calculate_kde, in the order of the calls, up to the first that raises.  *)
(***************************************************************************)
MixMaxBuildings == 2
MixMaxPois == 3
MixMaxCells == 2

\* lines 140, 165, 223: the calls of calculate_kde the function makes when
\* none raises
SurfaceCalls(built_rows, pois_rows, kw_args) ==
    <<[column |-> "residential_pdf", input |-> ResidentialInput(built_rows, kw_args)],
      [column |-> "activity_pdf", input |-> ActivityInput(built_rows, pois_rows, kw_args)]>>
    \o (IF kw_args.compute_activity_types_kde
        THEN Map(LAMBDA cat : [column |-> cat \o "_pdf",
                               input |-> CategoryInput(cat, built_rows, pois_rows, kw_args)],
                 SetToSeq(ActivityCategories(built_rows, ActivityPois(built_rows, pois_rows))))
        ELSE <<>>)

\* the calls made: a call that raises ends the function
RECURSIVE CallsMade(_, _, _)
CallsMade(pending, df_indices, kw_args) ==
    IF pending = <<>> THEN <<>>
    ELSE IF ~Returned(SurfaceOf(df_indices, Head(pending).input, kw_args)) THEN <<Head(pending)>>
    ELSE <<Head(pending)>> \o CallsMade(Tail(pending), df_indices, kw_args)

Containing(b, ids) == [b EXCEPT !.containing_poi = Some(ids)]

\* a house that holds POI 7, a shop that holds POIs 8 and 9, a mixed block
\* and a shop that hold none
MixBuildingPool ==
    <<Containing(Building(<<0, 0>>, 50, 150, 50, 150, "residential", 3, 1), <<7>>),
      Containing(Building(<<0, 0>>, 250, 350, 50, 150, "activity", 9, 1), <<8, 9>>),
      Building(<<0, 0>>, 150, 250, 150, 250, "mixed", 3, 2),
      Building(<<0, 0>>, 50, 150, 250, 350, "activity", 1, 1)>>

MixPoiPool ==
    <<Poi(<<0, 0>>, 100, 100, "activity", 7), Poi(<<0, 0>>, 300, 100, "mixed", 8),
      Poi(<<0, 0>>, 300, 120, "residential", 9), Poi(<<0, 0>>, 300, 300, "activity", 10),
      Poi(<<0, 0>>, 100, 300, "residential", 11)>>

\* the index label of the first cell: the labels are 0..n-1, or 1..n as in
\* a grid cut out of a longer table
MixFirstLabels == {0, 1}

MixInit ==
    /\ PhiIdle /\ KdeIdle /\ FeatIdle /\ BlockIdle /\ MainIdle
    /\ AssocIdle /\ FillIdle /\ TrainIdle
    /\ mix_out = NotRun
    /\ \E k \in 1..MixMaxCells,
          built \in {b \in SubSeqs(MixBuildingPool) : Len(b) <= MixMaxBuildings},
          pois \in {q \in SubSeqs(MixPoiPool) : Len(q) <= MixMaxPois},
          weighted \in BOOLEAN, types \in BOOLEAN, first \in MixFirstLabels :
            mix_in = [df_indices |-> [i \in 1..k |->
                                        [index |-> first + i - 1, idx |-> i,
                                         geometry |-> PointGeom(CellSize * i - CellSize \div 2,
                                                                CellSize \div 2)]],
                      df_osm_built |-> Relabel(built),
                      df_osm_pois |-> pois,
                      kw_args |-> [DefaultLandusemixArgs EXCEPT !.weighted_kde = weighted,
                                                               !.compute_activity_types_kde = types]]

CallMix ==
    /\ mix_out = NotRun
    /\ mix_out' = [outcome |-> compute_grid_landusemix(mix_in.df_indices, mix_in.df_osm_built,
                                                       mix_in.df_osm_pois, mix_in.kw_args),
                   calls |-> CallsMade(SurfaceCalls(mix_in.df_osm_built, mix_in.df_osm_pois,
                                                    mix_in.kw_args),
                                       mix_in.df_indices, mix_in.kw_args)]
    /\ UNCHANGED <<mix_in, phi_vars, kde_vars, feat_vars, block_vars, main_vars,
                   assoc_vars, fill_vars, train_vars>>

MixNext == CallMix

SpecMix == MixInit /\ [][MixNext]_vars

MixCalled == mix_out # NotRun

\* the POIs that some building lists
MixListed(q) ==
    \E b \in Range(mix_in.df_osm_built) :
        b.containing_poi # None /\ \E j \in 1..Len(b.containing_poi[1]) : b.containing_poi[1][j] = q.index
MixActivityClass(row) == row.classification = "activity" \/ row.classification = "mixed"
MixResidentialClass(row) == row.classification = "residential" \/ row.classification = "mixed"
\* a sequence of rows holds each row of a set once, and nothing else
ExactlyRows(rows, S) == Range(rows) = S /\ Len(rows) = Cardinality(S)

\* C18: the point set of the activity surface is the activity and mixed
\* buildings and the activity and mixed POIs that no building lists in
\* containing_poi; a listed POI is in the point set of no activity or
\* category surface; the residential surface has the residential and mixed
\* buildings and no POI.
C18_SurfacePointSets ==
    MixCalled =>
        \A k \in 1..Len(mix_out.calls) :
            IF mix_out.calls[k].column = "residential_pdf"
            THEN /\ mix_out.calls[k].input.df_osm_pois = None
                 /\ ExactlyRows(mix_out.calls[k].input.df_osm_built,
                                {b \in Range(mix_in.df_osm_built) : MixResidentialClass(b)})
            ELSE /\ mix_out.calls[k].input.df_osm_pois # None
                 /\ \A q \in Range(mix_out.calls[k].input.df_osm_pois[1]) : ~MixListed(q)
                 /\ mix_out.calls[k].column = "activity_pdf"
                      => /\ ExactlyRows(mix_out.calls[k].input.df_osm_built,
                                        {b \in Range(mix_in.df_osm_built) : MixActivityClass(b)})
                         /\ ExactlyRows(mix_out.calls[k].input.df_osm_pois[1],
                                        {q \in Range(mix_in.df_osm_pois) :
                                            MixActivityClass(q) /\ ~MixListed(q)})

\* a call with an activity POI that a house lists and an activity POI that
\* no building lists has made the activity surface and a category surface
C18_Witness ==
    /\ MixCalled
    /\ Len(mix_out.calls) >= 3
    /\ \E q \in Range(mix_in.df_osm_pois) : MixActivityClass(q) /\ MixListed(q)
    /\ \E q \in Range(mix_out.calls[2].input.df_osm_pois[1]) : TRUE
    /\ \E q \in Range(mix_out.calls[3].input.df_osm_pois[1]) : TRUE

(***************************************************************************)
(* SpecTrain: get_training_testing_data applied to bounded feature tables, *)
(* with no stored file.  A cell has an INSEE identifier and a population   *)
(* of 0 to 2, or it is a cell that the fill added: identifier "0",         *)
(* population 0.                                                           *)
(***************************************************************************)
TrainSpan == 2
TrainMaxCells == 2
\* -1: a cell added by the fill
TrainPops == (-1)..2

TrainPool ==
    [k \in 1..(TrainSpan * TrainSpan) |->
        <<CellSize * ((k - 1) \div TrainSpan), CellSize * ((k - 1) % TrainSpan)>>]

TrainCell(corner, pop, i) ==
    [idINSPIRE |-> IF pop < 0 THEN StrId(<<"0">>) ELSE InspireId(corner[1], corner[2]),
     pop_count |-> IF pop < 0 THEN RZero ELSE RInt(pop),
     geometry |-> Rect(corner[2], corner[2] + CellSize, corner[1], corner[1] + CellSize),
     num_buildings |-> RInt(i),
     landusemix |-> <<1, 2>>]

TrainTables ==
    {Relabel([i \in 1..Len(corners) |-> TrainCell(corners[i], pops[i], i)]) :
        <<corners, pops>> \in
            {<<c, n>> \in SubSeqsUpTo(TrainPool, TrainMaxCells) \X SeqsUpTo(TrainPops, TrainMaxCells) :
                Len(c) = Len(n) /\ Len(c) >= 1}}

TrainInit ==
    /\ PhiIdle /\ KdeIdle /\ FeatIdle /\ BlockIdle /\ MainIdle
    /\ AssocIdle /\ FillIdle /\ MixIdle
    /\ train_in \in TrainTables
    /\ train_out = NotRun

TrainCall == get_training_testing_data(EmptyDisk, CityRef, Some(train_in))

CallTrain ==
    /\ train_out = NotRun
    /\ train_out' = [outcome |-> TrainCall.outcome, pop_features |-> TrainCall.pop_features]
    /\ UNCHANGED <<train_in, phi_vars, kde_vars, feat_vars, block_vars, main_vars,
                   assoc_vars, fill_vars, mix_vars>>

TrainNext == CallTrain

SpecTrain == TrainInit /\ [][TrainNext]_vars

TrainReturned == train_out # NotRun /\ Returned(train_out.outcome)

\* the blocks that get_aggregated_squares makes of the table, in their order
TrainBlocks == get_aggregated_squares(Get(train_out.pop_features), CellSize, TRUE).value

\* the cell of a slot: its population in the table handed in, its features in
\* the table after the call; a null slot has neither
SlotPopulation(entry) ==
    IF entry = None THEN RZero
    ELSE RSum(Map(LAMBDA r : r.pop_count, Filter(LAMBDA r : r.index = entry[1], train_in)))
SlotFeature(entry, column) ==
    IF entry = None THEN RZero
    ELSE RSum(Map(LAMBDA r : r[column],
                  Filter(LAMBDA r : r.index = entry[1], Get(train_out.pop_features))))
BlockPopulation(b) == RSum(Map(LAMBDA entry : SlotPopulation(entry), b.indices))
TrainRetained == Filter(LAMBDA b : BlockPopulation(b) # RZero, TrainBlocks)

TrainY == train_out.outcome.value[1]
TrainX == train_out.outcome.value[2]
TrainColumns == train_out.outcome.value[3]

\* the arrays Y, X and the column names are those of the kept blocks
ArraysAsClaimed(kept, Y, X, columns) ==
    /\ Len(Y) = Len(kept)
    /\ Len(X) = Len(Y)
    /\ \A j \in 1..Len(kept) :
          /\ Y[j] = Map(LAMBDA entry : RDiv(SlotPopulation(entry), BlockPopulation(kept[j])),
                        kept[j].indices)
          /\ RSum(Y[j]) = ROne
          /\ Len(X[j]) = Len(kept[j].indices)
          /\ \A k \in 1..Len(kept[j].indices) :
                /\ Len(X[j][k]) = Len(columns)
                /\ \A c \in 1..Len(columns) : X[j][k][c] = SlotFeature(kept[j].indices[k], columns[c])
                /\ kept[j].indices[k] = None
                      => Y[j][k] = RZero /\ \A c \in 1..Len(columns) : X[j][k][c] = RZero

\* C19: get_training_testing_data keeps a block in X and Y exactly when the
\* population over its slots is not 0; the Y row of a kept block is the
\* share of each slot in that population and sums to 1; its X row holds the
\* features of the cells in slot order; a null slot has share 0 and features
\* 0; X and Y have as many rows.
C19_RetainedBlocks ==
    TrainReturned => ArraysAsClaimed(TrainRetained, TrainY, TrainX, TrainColumns)

\* a call has kept a block with two populated cells and null slots
C19_Witness ==
    /\ TrainReturned
    /\ Len(TrainY) >= 1
    /\ \E k, l \in 1..Len(TrainY[1]) :
          k # l /\ TrainY[1][k] # RZero /\ TrainY[1][l] # RZero
    /\ \E entry \in Range(TrainRetained[1].indices) : entry = None

(***************************************************************************)
(* SpecBlocks: summary mode                                                *)
(***************************************************************************)
BlockParsable == Filter(LAMBDA r : NorthingEastingOrNaN(r.idINSPIRE).value # None, block_in.df_insee)
BlocksHolding(r) == Filter(LAMBDA b : r.geometry \in b.geometry, block_out.value)

\* C20 (as stated): in summary mode get_aggregated_squares gathers every
\* observed cell that has a parsable identifier into exactly one block, and
\* the populations of the blocks add up to the population of the observed
\* cells, whatever the extent of the grid.
C20_SummaryCoversAll ==
    (BlocksCalled /\ ~block_in.conserve_squares_info /\ BlockParsable # <<>>)
        => /\ Returned(block_out)
           /\ \A r \in Range(BlockParsable) : Len(BlocksHolding(r)) = 1
           /\ RSum(Map(LAMBDA b : b.pop_count, block_out.value))
                = RSum(Map(LAMBDA r : r.pop_count, block_in.df_insee))

\* the same for the calls that return: the mesh stops short of the greatest
\* northing and easting
C20_ReturnedCoversAll ==
    (BlocksCalled /\ ~block_in.conserve_squares_info /\ Returned(block_out))
        => RSum(Map(LAMBDA b : b.pop_count, block_out.value))
              = RSum(Map(LAMBDA r : r.pop_count, block_in.df_insee))

(***************************************************************************)
(* Identifiers that cannot be parsed                                       *)
(***************************************************************************)
FillCalled == fill_out # NotRun
Unparsable(r) == r.idINSPIRE.type = "str" /\ ~Returned(NorthingEasting(r.idINSPIRE))

\* C21 (as stated): a cell whose identifier cannot be parsed into a northing
\* and an easting does not make get_population_df_filled_empty_squares fail:
\* the call returns and the cell is in the returned table as it was.
C21_UnparsableIsNotFatal ==
    (FillCalled /\ \E r \in Range(fill_in) : Unparsable(r))
        => /\ Returned(fill_out)
           /\ \A r \in Range(fill_in) :
                 Unparsable(r) => \E o \in Range(fill_out.value) : CellContent(o) = CellContent(r)

\* get_aggregated_squares: beside a cell that can be parsed, such a cell
\* raises nothing
C21_BlocksSkipUnparsable ==
    (/\ BlocksCalled
     /\ \E r \in Range(block_in.df_insee) : Unparsable(r)
     /\ \E r \in Range(block_in.df_insee) : ~Unparsable(r))
        => block_out.raised \notin {"IndexError", "ValueError", "AttributeError"}

(***************************************************************************)
(* SpecFeatures: the POI count                                             *)
(***************************************************************************)
FeatActivityPoisIn(g) ==
    {q \in Range(feat_in.df_osm_pois) :
        /\ q.classification = "activity" \/ q.classification = "mixed"
        /\ g.x0 <= q.geometry.x0 /\ q.geometry.x0 <= g.x1
        /\ g.y0 <= q.geometry.y0 /\ q.geometry.y0 <= g.y1}

\* C22: for every cell of the enriched output num_activity_pois is the number
\* of the POIs classified activity or mixed whose point is in the footprint
\* of the cell, boundary included; a POI of another class is not counted, and
\* a cell without such a POI has 0.
C22_ActivityPoiCount ==
    (FeatCalled /\ Returned(feat_out))
        => \A i \in 1..Len(feat_out.value) :
              feat_out.value[i].num_activity_pois
                  = RInt(Cardinality(FeatActivityPoisIn(feat_out.value[i].geometry)))

\* a mixed POI on the boundary of two cells is counted in both, beside a
\* cell that has none
C22_Witness ==
    /\ FeatCalled /\ Returned(feat_out)
    /\ \E i, j \in 1..Len(feat_out.value) :
          /\ i # j
          /\ feat_out.value[i].num_activity_pois = ROne
          /\ feat_out.value[j].num_activity_pois = ROne
    /\ \E i \in 1..Len(feat_out.value) : feat_out.value[i].num_activity_pois = RZero

(***************************************************************************)
(* SpecFeatures: the cap on the dispersion                                 *)
(***************************************************************************)
\* the dispersion the estimator gave the i-th cell of the output
FeatDispersionGiven(i) ==
    feat_in.dispersion_values[((i - 1) % Len(feat_in.dispersion_values)) + 1]
DispersionCapped(given, c) == IF IsNaN(given) THEN RZero ELSE IF RLess(c, given) THEN c ELSE given

\* C23 (as stated): after a computing run with the cap max_dispersion = c
\* every cell has a dispersion of at most c: a value above c has become c, a
\* value of at most c is as the estimator gave it, and every cell of the
\* grid has its row.
C23_DispersionCapped ==
    (FeatCalled /\ Returned(feat_out))
        => /\ Len(feat_out.value) = Len(feat_in.pop_grid)
           /\ \A i \in 1..Len(feat_out.value) :
                 /\ RLeq(feat_out.value[i].dispersion, RInt(feat_in.max_dispersion))
                 /\ feat_out.value[i].dispersion
                       = DispersionCapped(FeatDispersionGiven(i), RInt(feat_in.max_dispersion))

\* the same for the caps other than 0
C23_NonZeroCap ==
    (FeatCalled /\ Returned(feat_out) /\ feat_in.max_dispersion # 0)
        => /\ Len(feat_out.value) = Len(feat_in.pop_grid)
           /\ \A i \in 1..Len(feat_out.value) :
                 /\ RLeq(feat_out.value[i].dispersion, RInt(feat_in.max_dispersion))
                 /\ feat_out.value[i].dispersion
                       = DispersionCapped(FeatDispersionGiven(i), RInt(feat_in.max_dispersion))

(***************************************************************************)
(* SpecFeatures: the estimators see centroids, the caller gets footprints  *)
(***************************************************************************)
\* the cell of the grid that a row of the output is about
FeatGridCell(r) == CHOOSE g \in Range(feat_in.pop_grid) : g.idx = r.idx
\* the centroids of the footprints of the cells of the output, in row order
FeatCentroidRows ==
    [i \in 1..Len(feat_out.value) |->
        [index |-> i - 1,
         geometry |-> PointGeom(Centroid(FeatGridCell(feat_out.value[i]).geometry)[1],
                                Centroid(FeatGridCell(feat_out.value[i]).geometry)[2])]]
ZeroForNaN(v) == IF IsNaN(v) THEN RZero ELSE v
ColumnIs(rows, column, surface) ==
    /\ Returned(surface)
    /\ \A i \in 1..Len(rows) : rows[i][column] = ZeroForNaN(surface.value[i])

\* C24: in the table returned by a computing run the residential and
\* activity densities of a cell are the surfaces evaluated at the centroid
\* of the cell's footprint, beside the reduced features and the POI count;
\* the geometry of the cell is its footprint again, the column
\* geometry_squares is gone, the dispersion is in the table and the cells
\* are those of the grid.
C24_CentroidsThenFootprints ==
    (FeatCalled /\ Returned(feat_out))
        => /\ {r.idx : r \in Range(feat_out.value)} = {g.idx : g \in Range(feat_in.pop_grid)}
           /\ Len(feat_out.value) = Len(feat_in.pop_grid)
           /\ \A r \in Range(feat_out.value) :
                 /\ r.geometry = FeatGridCell(r).geometry
                 /\ r.geometry.kind = "rect"
                 /\ "geometry_squares" \notin DOMAIN r
                 /\ {"num_buildings", "num_activity_pois", "landusemix", "dispersion"}
                        \subseteq DOMAIN r
           /\ ColumnIs(feat_out.value, "residential_pdf",
                       SurfaceOf(FeatCentroidRows,
                                 ResidentialInput(FeatBuilt, DefaultLandusemixArgs),
                                 DefaultLandusemixArgs))
           /\ ColumnIs(feat_out.value, "activity_pdf",
                       SurfaceOf(FeatCentroidRows,
                                 ActivityInput(FeatBuilt, feat_in.df_osm_pois,
                                               DefaultLandusemixArgs),
                                 DefaultLandusemixArgs))

\* two cells of different residential density are returned with their footprints
C24_Witness ==
    /\ FeatCalled /\ Returned(feat_out)
    /\ \E r, q \in Range(feat_out.value) :
          /\ r.residential_pdf # q.residential_pdf
          /\ r.residential_pdf # RZero /\ q.residential_pdf # RZero
          /\ r.geometry.kind = "rect" /\ RLess(RZero, Area(r.geometry))

(***************************************************************************)
(* SpecFeatures: the final pass over the null values                       *)
(***************************************************************************)
\* the table of a computing run as line 314 leaves it
FeatBeforeFill ==
    CapDispersion(
        RestoreGeometries(compute_grid_dispersion(
            compute_grid_landusemix(
                ToCentroids(CountActivityPois(
                    AggregateByCell(feat_records, IdentityColumns(feat_in.data_source)),
                    feat_in.df_osm_pois)),
                FeatBuilt, feat_in.df_osm_pois, DefaultLandusemixArgs).value,
            feat_in.dispersion_values)),
        Some(feat_in.max_dispersion))

NumericColumns(r) == (DOMAIN r) \ {"index", "idx", "geometry"}

NullsAreZero(before, after) ==
    /\ Len(after) = Len(before)
    /\ \A i \in 1..Len(after) :
          /\ DOMAIN after[i] = DOMAIN before[i]
          /\ \A c \in DOMAIN after[i] :
                /\ c \in NumericColumns(after[i]) => ~IsNaN(after[i][c])
                /\ after[i][c] = IF c \in NumericColumns(after[i]) /\ IsNaN(before[i][c])
                                 THEN RZero ELSE before[i][c]

\* C25: the table returned by a computing run holds no null in a numeric
\* column: a value that is null when line 314 is done is 0, every other
\* value is as it was, and a second pass of line 317 changes nothing.
C25_NoNullReturned ==
    (FeatCalled /\ Returned(feat_out))
        => /\ NullsAreZero(FeatBeforeFill, feat_out.value)
           /\ FillNa(feat_out.value) = feat_out.value

\* a built cell whose density is null in the surface and 0 in the table
NullDensityZeroed(rows, column, surface) ==
    /\ Returned(surface)
    /\ \E i \in 1..Len(rows) :
          /\ IsNaN(surface.value[i])
          /\ rows[i][column] = RZero /\ rows[i].landusemix = RZero
          /\ rows[i].num_buildings # RZero

\* a cell with a null dispersion and a built cell with a null density get
\* zeros beside the values that are kept
C25_Witness ==
    /\ FeatCalled /\ Returned(feat_out)
    /\ \E i \in 1..Len(feat_out.value) :
          IsNaN(FeatDispersionGiven(i)) /\ feat_out.value[i].dispersion = RZero
    /\ NullDensityZeroed(feat_out.value, "activity_pdf",
                         SurfaceOf(FeatCentroidRows,
                                   ActivityInput(FeatBuilt, feat_in.df_osm_pois,
                                                 DefaultLandusemixArgs),
                                   DefaultLandusemixArgs))

(***************************************************************************)
(* SpecMix: the densities are written on the cells they were evaluated for *)
(***************************************************************************)
\* the column holds, row by row, the surface evaluated at the rows' points
ColumnIsSurface(rows, column, surface) ==
    /\ Returned(surface)
    /\ \A i \in 1..Len(rows) : rows[i][column] = surface.value[i]

DensitiesOfOwnCentroid ==
    /\ ColumnIsSurface(mix_out.outcome.value, "residential_pdf",
                       SurfaceOf(mix_in.df_indices,
                                 ResidentialInput(mix_in.df_osm_built, mix_in.kw_args),
                                 mix_in.kw_args))
    /\ ColumnIsSurface(mix_out.outcome.value, "activity_pdf",
                       SurfaceOf(mix_in.df_indices,
                                 ActivityInput(mix_in.df_osm_built, mix_in.df_osm_pois,
                                               mix_in.kw_args),
                                 mix_in.kw_args))
    /\ "shop_pdf" \in DOMAIN mix_out.outcome.value[1]
          => ColumnIsSurface(mix_out.outcome.value, "shop_pdf",
                             SurfaceOf(mix_in.df_indices,
                                       CategoryInput("shop", mix_in.df_osm_built,
                                                     mix_in.df_osm_pois, mix_in.kw_args),
                                       mix_in.kw_args))

\* C26 (as stated): whatever the index labels of the cells, after a call of
\* compute_grid_landusemix that returns the residential_pdf, activity_pdf and
\* category densities of a cell are the normalised surfaces evaluated at
\* that cell's own point.
C26_DensitiesAligned ==
    (MixCalled /\ Returned(mix_out.outcome)) => DensitiesOfOwnCentroid

\* the same for the tables whose labels are 0..n-1
C26_RangeIndexAligned ==
    (/\ MixCalled /\ Returned(mix_out.outcome)
     /\ \A i \in 1..Len(mix_in.df_indices) : mix_in.df_indices[i].index = i - 1)
        => DensitiesOfOwnCentroid
====
